---- MODULE Spec2Model ----
(***************************************************************************)
(* The tick loop of the simulation (TimeManager, SimulationController),    *)
(* the memory formation of MemoryManager and the reflection trigger of     *)
(* ReflectionEngine, as a state machine over the structured store, the     *)
(* semantic index and the in-memory agents.                                *)
(*                                                                         *)
(* A task is a coroutine: "fg" is the caller of the controller's commands  *)
(* (start, pause, step), "bg" the background task that start_simulation    *)
(* creates.  A task's pc names the await it is suspended on; one action is *)
(* the completion of that await followed by all the synchronous code up to *)
(* the next await.  Every external call (Text Service, structured store,   *)
(* semantic index, terminal logger) either succeeds or fails; the number   *)
(* of failures in one behaviour is bounded by MaxFaults.                   *)
(*                                                                         *)
(* SpecWorld is the behaviour system called by itself (choose_action,      *)
(* execute_action) with agents placed anywhere in the world; SpecPlanning  *)
(* is the planning engine called by itself (generate_daily_plan,           *)
(* should_plan, _store_daily_plan, update_task_status) under a clock and   *)
(* a local time zone.  The variable call records the last such call.       *)
(* SpecLocations adds place_agent to the calls of SpecWorld; SpecPlans is  *)
(* generate_daily_plan and get_current_task with answers of any time       *)
(* range; SpecMemory is the memory manager and the store called by         *)
(* themselves (form_memory_from_action, retrieve_relevant_memories,        *)
(* get_recent_memories); SpecFunctions applies the pure functions          *)
(* (_parse_time_range, score_importance, _make_request) to their inputs;   *)
(* SpecCandidates reads the candidates of a reflection over several days.  *)
(* SpecTime is SpecConcurrent with a tick logger that can raise,           *)
(* SpecRestart the ticks of step_simulation with restarts on the same      *)
(* store, and SpecLive those ticks under weak fairness of the pipeline.    *)
(***************************************************************************)
EXTENDS Integers, Sequences, FiniteSets, TLC

\* ------------------------------------------------------------------ bounds
MaxTicks == 2
MaxFaults == 1
InsightBound == 2
MaxBlocks == 2
StartHour == 8
MaxElapsed == 7
MaxOffset == 7
MaxMemories == 3
MaxPlans == 2
MaxHour == 24
MaxLimit == 2
MaxMinute == 60
MaxDays == 4
MaxRows == 8

\* --------------------------------------------------------------- constants
reflection_threshold == 30
max_insights == 3
max_retries == 3
reflection_importance == 8
plan_max_age == 6
planning_limit == 15
high_importance == 7
high_count == 3
recent_limit == 50
top_memories == 20
reflection_hours == 72
default_importance == 3
max_importance == 10

\* The agents in the order of SimulationController.agents (a dict filled in
\* configuration order by _load_agents).
Agents == <<"a1", "a2">>
AgentIds == {Agents[i] : i \in 1..Len(Agents)}
Tasks == {"bg", "fg"}

\* The places of the world (world configuration): the ids, each place's list
\* connected_places in configuration order, and each place's name.  A text is
\* a sequence of characters, in lower case: the parser compares lower-cased
\* texts.  The library's name differs from its id.
Places == {"home", "square", "library"}
None == "none"

connected_places(p) ==
    CASE p = "home" -> <<"square">>
      [] p = "square" -> <<"home", "library">>
      [] p = "library" -> <<"square">>
      [] OTHER -> <<>>

Text_home == <<"h", "o", "m", "e">>
Text_square == <<"s", "q", "u", "a", "r", "e">>
Text_library == <<"l", "i", "b", "r", "a", "r", "y">>
Text_public_library == <<"p", "u", "b", "l", "i", "c", " ">> \o Text_library
Text_nowhere == <<"n", "o", "w", "h", "e", "r", "e">>

\* str(place_id): the text of an id.
Chars(p) ==
    CASE p = "home" -> Text_home
      [] p = "square" -> Text_square
      [] p = "library" -> Text_library
      [] OTHER -> Text_nowhere

\* Place.name.
place_name(p) == IF p = "library" THEN Text_public_library ELSE Chars(p)

Range(seq) == {seq[i] : i \in 1..Len(seq)}

\* MemoryType: the enum members, and the value of each.
MemoryType_ACTION == "MemoryType.ACTION"
MemoryType_PERCEPTION == "MemoryType.PERCEPTION"
MemoryType_REFLECTION == "MemoryType.REFLECTION"
\* TaskStatus: the enum members used here.
TaskStatus_PENDING == "TaskStatus.PENDING"
TaskStatus_IN_PROGRESS == "TaskStatus.IN_PROGRESS"
TaskStatus_COMPLETED == "TaskStatus.COMPLETED"
TaskStatuses == {TaskStatus_PENDING, TaskStatus_IN_PROGRESS, TaskStatus_COMPLETED}

EnumValue(e) ==
    CASE e = MemoryType_ACTION -> "action"
      [] e = MemoryType_PERCEPTION -> "perception"
      [] e = MemoryType_REFLECTION -> "reflection"
      [] e = TaskStatus_PENDING -> "pending"
      [] e = TaskStatus_IN_PROGRESS -> "in_progress"
      [] e = TaskStatus_COMPLETED -> "completed"
      [] OTHER -> e

\* Memory(...): the model is configured with use_enum_values, so the field
\* memory_type holds the enum member's value (a string), whether the
\* constructor was given the member or its value.
Memory(agent, content, mtype, importance, ts) ==
    [agent_id |-> agent, content |-> content, memory_type |-> EnumValue(mtype),
     importance_score |-> importance, timestamp |-> ts]

\* _create_action_memory_content: the text of the action type's template; the
\* text itself is not modelled further.
ActionContent(action) == <<"I ", "action">>

\* _store_reflection_as_memory: the content of a reflection's companion memory.
CompanionContent(insight) == <<"I reflected and realized: ", insight>>

\* The completions of the Text Service for the rating prompt, each a sequence
\* of tokens: a number is its value, -1 a token without a digit.  The ticks
\* are checked with a completion without a number and one above the clamp.
Scores == {<<-1>>, <<-1, max_importance + 2>>}

\* The answers of the Text Service to the decision prompt: the keyword that
\* begins the ACTION line ("OTHER": none of the four, "NONE": no ACTION line)
\* and, after MOVE, the destination text (empty: MOVE alone), or an error.
TextServiceError == [kw |-> "ERROR", dest |-> <<>>]
Keywords == {"MOVE", "WAIT", "OBSERVE", "INTERACT", "OTHER", "NONE"}
Destinations ==
    {<<>>, Text_home, Text_square, Text_library, Text_public_library, Text_nowhere}
Responses ==
    {[kw |-> "MOVE", dest |-> d] : d \in Destinations}
        \cup {[kw |-> k, dest |-> <<>>] : k \in Keywords \ {"MOVE"}}
        \cup {TextServiceError}

\* The answers the ticks are checked with: a move to each place connected to
\* the square or to home, by its name, and the fallback.
TickResponses ==
    {[kw |-> "MOVE", dest |-> d] : d \in {Text_square, Text_public_library}}
        \cup {TextServiceError}

\* The text of a time range as _parse_time_range searches it: the four
\* numbers of the first H:MM-H:MM in it (empty: the pattern does not
\* match), and the period names the lower-cased text contains, which are the
\* keys of default_times in their order.
PeriodNames == <<"morning", "afternoon", "evening">>

\* The answers of the Text Service to the planning prompt: the time-range
\* texts of the well-formed period blocks of the answer, in their order.
\* PeriodAnswers: the first n periods, each with the name of its period as
\* its time range.
PeriodAnswers(ns) ==
    {[i \in 1..n |-> [range |-> <<>>,
                     periods |-> {PeriodNames[((i - 1) % Len(PeriodNames)) + 1]}]] :
        n \in ns}

Min(x, y) == IF x < y THEN x ELSE y

\* AgentLocation(agent_id, place_id): previous_place_id defaults to None.
AgentLocation(p) == [place_id |-> p, previous_place_id |-> None]

\* agent.home_location (agent configuration).
home_location(a) == "home"

VARIABLES
    current_tick,            \* TimeManager.current_tick
    is_running,              \* TimeManager.is_running
    importance_accumulator,  \* agent.state.importance_accumulator, per agent
    reflections_count,       \* agent.reflections_count, per agent
    agent_locations,         \* WorldState.agent_locations, per agent
    store_locations,         \* the rows of the table agent_locations
    state_current_location,  \* agent.state.current_location, per agent
    store_current_location,  \* agent_states.current_location in the store
    store_states,            \* agent_states.importance_accumulator in the store
    memories,                \* the memories table, in insertion order
    memories_count,          \* agents.memories_count in the store, per agent
    reflections,             \* the reflections table, in insertion order
    vector_index,            \* ids of the memories the semantic index holds
    plan_rows,               \* the plans table, oldest created_at first
    clock,                   \* the time (UTC), in hours
    call,                    \* the last call of an operation from outside the tick loop
    task,                    \* per task: pc and the locals of the coroutine
    hist,                    \* per task: what the current tick has done so far
    faults,                  \* failures of external calls so far
    inputs                   \* what the environment of this behaviour can answer

vars == <<current_tick, is_running, importance_accumulator, reflections_count,
          agent_locations, store_locations,
          state_current_location, store_current_location, store_states, memories,
          memories_count, reflections, vector_index, plan_rows, clock, call,
          task, hist, faults, inputs>>

NoLocals ==
    [pc |-> "none", idx |-> 0, tick |-> 0, action |-> "none", score |-> 0,
     mid |-> 0, wv |-> 0, cands |-> {}, insights |-> 0, k |-> 0, rid |-> 0]

\* No call from outside the tick loop has been made.
NoCall == [op |-> "none"]

NoHist ==
    [trace |-> <<>>, visits |-> [a \in AgentIds |-> 0], raised |-> {},
     formed |-> 0, acc_before |-> 0, acc_after |-> 0, updates |-> 0,
     check_acc |-> -1, check |-> FALSE, trig_acc |-> 0, trig_store |-> 0,
     persisted |-> 0, companions |-> 0, returned |-> -1, emb_failed |-> FALSE,
     add_failed |-> {}, wanted |-> None]

\* A database left by an earlier run: n action memories of importance 10
\* each per resumed agent, embedded, and their importance accumulated (with
\* three of them the accumulator is at the threshold: the reflection of the
\* earlier run did not store its insights).
SeedMemories(resumed, n) ==
    LET one(a) == Memory(a, ActionContent("observe"), MemoryType_ACTION, max_importance, 0)
        ofAgent(a) == IF a \in resumed THEN [i \in 1..n |-> one(a)] ELSE <<>>
    IN ofAgent(Agents[1]) \o ofAgent(Agents[2])

SeedAccumulator(a, resumed, n) == IF a \in resumed THEN n * max_importance ELSE 0

\* LLMService._parse_numbered_list keeping every numbered line.
parse_numbered_list_all(lines, max_items) ==
    SelectSeq(lines, LAMBDA k : k >= 1)

\* LLMService._parse_numbered_list(text, max_items): lines holds, for each
\* line of the text, the number it begins with ("k." followed by some
\* text), or 0 for a line without a number or without text.  The items are
\* the lines numbered 1..max_items, up to the first max_items of them.
parse_numbered_list(lines, max_items) ==
    LET items == SelectSeq(lines, LAMBDA k : k >= 1 /\ k <= max_items)
    IN SubSeq(items, 1, Min(max_items, Len(items)))

\* The completions of the reflection prompt: numbered lists of up to
\* InsightBound lines, and one of max_insights + 1 lines.
NumberedLists ==
    {[i \in 1..m |-> i] : m \in (0..InsightBound) \cup {max_insights + 1}}

\* The environment of a behaviour: the decisions and the importance ratings
\* the Text Service can answer, its completions of the reflection prompt,
\* the number of external calls that can fail, whether the Text Service is up,
\* the answers it can give to the planning prompt, the offset of the local
\* time zone from UTC in hours, and whether the logger of the tick summary
\* works ("flaky": it can raise at every tick).
AnyInputs ==
    [responses |-> TickResponses, scores |-> Scores,
     insights |-> NumberedLists, faults |-> MaxFaults,
     text_service |-> "up", blocks |-> PeriodAnswers(1..MaxBlocks),
     utc_offset |-> 0, tick_log |-> "up"]

\* An environment in which every call of the Text Service (completion and
\* embedding) fails; the other external calls can still fail.
DownInputs ==
    [responses |-> {TextServiceError}, scores |-> Scores, insights |-> {<<>>},
     faults |-> MaxFaults, text_service |-> "down",
     blocks |-> PeriodAnswers(1..MaxBlocks),
     utc_offset |-> 0, tick_log |-> "up"]

\* An environment in which nothing fails and the Text Service always answers
\* a move to the square, the highest rating and one insight.
SteadyInputs ==
    [responses |-> {[kw |-> "MOVE", dest |-> Text_square]},
     scores |-> {<<max_importance>>},
     insights |-> {<<1>>}, faults |-> 0, text_service |-> "up",
     blocks |-> PeriodAnswers({1}),
     utc_offset |-> 0, tick_log |-> "up"]

InitWith(env, databases, n, placements) ==
    \E resumed \in databases, placed \in placements :
        /\ inputs = env
        /\ current_tick = 0
        /\ is_running = FALSE
        /\ importance_accumulator = [a \in AgentIds |-> SeedAccumulator(a, resumed, n)]
        /\ reflections_count = [a \in AgentIds |-> 0]
        /\ agent_locations = [a \in AgentIds |-> AgentLocation(placed[a])]
        /\ store_locations = {[agent_id |-> a, place_id |-> placed[a]] :
                                 a \in {b \in AgentIds : placed[b] # None}}
        /\ state_current_location = [a \in AgentIds |-> None]
        /\ store_current_location = placed
        /\ store_states = [a \in AgentIds |-> SeedAccumulator(a, resumed, n)]
        /\ memories = SeedMemories(resumed, n)
        /\ memories_count = [a \in AgentIds |-> IF a \in resumed THEN n ELSE 0]
        /\ reflections = <<>>
        /\ vector_index = 1..Len(SeedMemories(resumed, n))
        /\ plan_rows = <<>>
        /\ clock = StartHour
        /\ call = NoCall
        /\ task = [t \in Tasks |-> IF t = "fg" THEN [NoLocals EXCEPT !.pc = "idle"]
                                               ELSE NoLocals]
        /\ hist = [t \in Tasks |-> NoHist]
        /\ faults = 0

\* SimulationController._load_agents: every agent is placed at its home.
AtHome == {[a \in AgentIds |-> home_location(a)]}

Init ==
    \/ InitWith(AnyInputs, SUBSET AgentIds, 2, AtHome)
    \/ InitWith(DownInputs, {{}, AgentIds}, 3, AtHome)

\* Both agents resumed from an earlier run, in the steady environment.
InitSteady == InitWith(SteadyInputs, {AgentIds}, 2, AtHome)

\* ----------------------------------------------------------------- helpers
AgentOf(t) == Agents[task[t].idx]

\* An external call fails only while the behaviour's failures are below the bound.
CanFail == faults < inputs.faults
Outcome(ok) == IF ok THEN faults ELSE faults + 1

\* A call of the Text Service: it can succeed only when the service is up;
\* when it is down its failure is not one of the bounded failures.
TextServiceUp == inputs.text_service = "up"
TextServiceCan(ok) == IF TextServiceUp THEN ok \/ CanFail ELSE ~ok
TextServiceOutcome(ok) == IF ok \/ ~TextServiceUp THEN faults ELSE faults + 1

\* sim_logger.log_tick_complete: a flaky logger can raise at every tick, and
\* its failure is not one of the bounded failures.
TickLogFlaky == inputs.tick_log = "flaky"
TickLogCan(ok) == ok \/ CanFail \/ TickLogFlaky
TickLogOutcome(ok) == IF ok \/ TickLogFlaky THEN faults ELSE faults + 1

Log(h, labels) == [h EXCEPT !.trace = @ \o labels]

SetTask(t, loc, h, f) ==
    /\ task' = [task EXCEPT ![t] = loc]
    /\ hist' = [hist EXCEPT ![t] = h]
    /\ faults' = f
    /\ UNCHANGED inputs

\* The history of a tick between two pipelines: what the tick as a whole did.
TickHist(h) ==
    [NoHist EXCEPT !.visits = h.visits, !.raised = h.raised,
                   !.add_failed = h.add_failed]

\* The history of a tick when the pipeline of the i-th agent begins.
PipelineHist(h, i) ==
    [TickHist(h) EXCEPT !.visits[Agents[i]] = @ + 1]

\* _on_tick, the for loop: the pipeline of the next agent up to its first
\* await, or, after the last agent, the agent summaries (store reads).
NextAgent(loc, h) ==
    IF loc.idx < Len(Agents)
    THEN <<[NoLocals EXCEPT !.pc = "decide", !.idx = loc.idx + 1, !.tick = loc.tick],
           PipelineHist(h, loc.idx + 1)>>
    ELSE <<[NoLocals EXCEPT !.pc = "summary", !.tick = loc.tick], TickHist(h)>>

\* OnTickExcept without the except clause around _process_agent_tick: the
\* exception leaves the for loop and is caught by advance_tick.
OnTickNoExcept(loc, h) ==
    <<[NoLocals EXCEPT !.pc = "summary", !.tick = loc.tick], TickHist(h)>>

\* _on_tick, `except Exception` around _process_agent_tick: the exception is
\* logged and the for loop goes on with the next agent.
OnTickExcept(loc, h) == NextAgent(loc, h)

\* add_memory without the update of the agent's memories_count.
add_memory_uncounted(memory) ==
    [memories |-> Append(memories, memory), memories_count |-> memories_count]

\* ------------------------------------------------------------- SQLiteStore
\* add_memory: the row is inserted and the agent's memories_count is raised
\* by one, in one transaction.
add_memory(memory) ==
    [memories |-> Append(memories, memory),
     memories_count |-> [memories_count EXCEPT ![memory.agent_id] = @ + 1]]

\* update_agent_location: INSERT OR REPLACE of the agent's row of the table
\* agent_locations (the row of an agent is replaced).
update_agent_location(a, location) ==
    {r \in store_locations : r.agent_id # a}
        \cup {[agent_id |-> a, place_id |-> location.place_id]}

\* update_agent_location, its second statement: the current_location of the
\* agent's row of agent_states becomes the place.
update_agent_location_state(a, location) ==
    [store_current_location EXCEPT ![a] = location.place_id]

\* update_agent_state: the current_location of the agent's row of
\* agent_states is written from the state the agent has in memory.
update_agent_state_location(a) ==
    [store_current_location EXCEPT ![a] = state_current_location[a]]

\* ------------------------------------------------- WorldState, LLMBehavior
\* can_move_to with the test of the connection left out.
can_move_anywhere(a, target) ==
    /\ agent_locations[a].place_id # None
    /\ agent_locations[a].place_id \in Places
    /\ target \in Places

\* WorldState.can_move_to: the agent is placed, its place and the target
\* exist, and the target is in the connected_places of its place.
can_move_to(a, target) ==
    /\ agent_locations[a].place_id # None
    /\ agent_locations[a].place_id \in Places
    /\ target \in Places
    /\ target \in Range(connected_places(agent_locations[a].place_id))

\* WorldState.move_agent (after can_move_to): the location of the agent.
move_agent(a, target) ==
    [place_id |-> target, previous_place_id |-> agent_locations[a].place_id]

\* WorldState.get_agents_at_location(place_id): the agents whose location in
\* the world state is the place.
get_agents_at_location(place_id) ==
    {a \in AgentIds : agent_locations[a].place_id = place_id}

\* SQLiteStore.get_agents_at_location(place_id): SELECT agent_id FROM
\* agent_locations WHERE place_id = ?.
store_get_agents_at_location(place_id) ==
    {r.agent_id : r \in {q \in store_locations : q.place_id = place_id}}

\* `needle in hay` on strings.
IsSubstring(needle, hay) ==
    \E i \in 0..(Len(hay) - Len(needle)) : SubSeq(hay, i + 1, i + Len(needle)) = needle

\* WorldManager.get_place_info(x) is not None: x is the id of a place.
IsPlaceId(x) == \E p \in Places : Chars(p) = x
PlaceWithId(x) == CHOOSE p \in Places : Chars(p) = x

\* _build_agent_context: current_location (an agent that is not placed is
\* placed at its home) and available_destinations, the names of the places
\* connected to it.
current_location(a) ==
    IF agent_locations[a].place_id = None THEN home_location(a)
    ELSE agent_locations[a].place_id

available_destinations(cur) ==
    [i \in 1..Len(connected_places(cur)) |-> place_name(connected_places(cur)[i])]

Action(a, type, target) == [agent_id |-> a, action_type |-> type, target |-> target]
ObserveAction(a) == Action(a, "observe", None)

\* _parse_action_text, the MOVE branch when the pattern has matched: each
\* available destination (a name) is looked up with get_place_info (by id),
\* and the first one found whose name contains the destination text is the
\* target; without any, the target is the first connected place.
parse_move(a, dest, cur) ==
    LET avail == available_destinations(cur)
        matches == {i \in 1..Len(avail) :
                       /\ IsPlaceId(avail[i])
                       /\ IsSubstring(dest, place_name(PlaceWithId(avail[i])))}
    IN IF matches # {}
       THEN Action(a, "move", PlaceWithId(avail[CHOOSE i \in matches : \A j \in matches : i <= j]))
       ELSE IF Len(connected_places(cur)) > 0
            THEN Action(a, "move", connected_places(cur)[1])
            ELSE ObserveAction(a)

\* _parse_action_text: the action of the ACTION line's text.
parse_action_text(a, response, cur) ==
    CASE response.kw = "MOVE" ->
            IF response.dest = <<>> THEN ObserveAction(a)
            ELSE parse_move(a, response.dest, cur)
      [] response.kw = "WAIT" -> Action(a, "wait", None)
      [] response.kw = "OBSERVE" -> ObserveAction(a)
      [] response.kw = "INTERACT" -> Action(a, "interact", None)
      [] OTHER -> ObserveAction(a)

\* choose_action_with_reasoning: the parsed action, or the fallback OBSERVE
\* when the Text Service fails.
choose_action_with_reasoning(a, response) ==
    IF response = TextServiceError THEN ObserveAction(a)
    ELSE parse_action_text(a, response, current_location(a))

\* The place a response asks to move to: the connected place whose name is
\* the destination text of a MOVE, if there is one.
NamedDestination(a, response) ==
    LET named == {p \in Range(connected_places(current_location(a))) :
                     response.kw = "MOVE" /\ response.dest = place_name(p)}
    IN IF named = {} THEN None ELSE CHOOSE p \in named : TRUE

\* ------------------------------------------------------------ TimeManager
\* advance_tick without the increment of the counter: the callbacks only.
advance_tick_callbacks(t) ==
    /\ current_tick < MaxTicks
    /\ current_tick' = current_tick
    /\ SetTask(t,
               [NoLocals EXCEPT !.pc = "decide", !.idx = 1, !.tick = current_tick + 1],
               PipelineHist(NoHist, 1),
               faults)

\* advance_tick: the counter is incremented, then the tick callback (_on_tick)
\* runs up to the first await of the first agent's pipeline.
advance_tick(t) ==
    /\ current_tick < MaxTicks
    /\ current_tick' = current_tick + 1
    /\ SetTask(t,
               [NoLocals EXCEPT !.pc = "decide", !.idx = 1, !.tick = current_tick + 1],
               PipelineHist(NoHist, 1),
               faults)

\* SimulationController.step_simulation, called by the command loop.
StepSimulation ==
    /\ task["fg"].pc = "idle"
    /\ advance_tick("fg")
    /\ UNCHANGED <<is_running, importance_accumulator, reflections_count,
                   agent_locations, store_locations,
                   state_current_location, store_current_location, store_states, memories,
                   memories_count, reflections, vector_index, plan_rows,
                   clock, call>>

\* TimeManager.start_simulation: nothing when already running, else the
\* background task is created (it has not run yet).
StartSimulation ==
    /\ task["fg"].pc = "idle"
    /\ IF is_running
       THEN UNCHANGED <<is_running, task, hist>>
       ELSE /\ is_running' = TRUE
            /\ task' = [task EXCEPT !["bg"] = [NoLocals EXCEPT !.pc = "created"]]
            /\ hist' = [hist EXCEPT !["bg"] = NoHist]
    /\ UNCHANGED <<current_tick, importance_accumulator, reflections_count,
                   agent_locations, store_locations,
                   state_current_location, store_current_location, store_states, memories,
                   memories_count, reflections, vector_index, plan_rows,
                   clock, call, faults, inputs>>

\* TimeManager.pause_simulation: nothing when not running, else the
\* background task is cancelled at the await it is suspended on
\* (CancelledError is no Exception: no handler of the pipeline catches it).
\* The history keeps what the cancelled tick had done.
PauseSimulation ==
    /\ task["fg"].pc = "idle"
    /\ IF ~is_running
       THEN UNCHANGED <<is_running, task, hist>>
       ELSE /\ is_running' = FALSE
            /\ task' = [task EXCEPT !["bg"] = NoLocals]
            /\ UNCHANGED hist
    /\ UNCHANGED <<current_tick, importance_accumulator, reflections_count,
                   agent_locations, store_locations,
                   state_current_location, store_current_location, store_states, memories,
                   memories_count, reflections, vector_index, plan_rows,
                   clock, call, faults, inputs>>

\* _simulation_loop: the loop's test after creation or after the sleep, and
\* the next advance_tick.
SimulationLoop ==
    /\ task["bg"].pc \in {"created", "sleep"}
    /\ is_running
    /\ advance_tick("bg")
    /\ UNCHANGED <<is_running, importance_accumulator, reflections_count,
                   agent_locations, store_locations,
                   state_current_location, store_current_location, store_states, memories,
                   memories_count, reflections, vector_index, plan_rows,
                   clock, call>>

\* ------------------------------------------- SimulationController pipeline
\* _process_agent_tick from `if await should_plan(agent)` on: should_plan's
\* first await is the store read of get_current_daily_plan.
ToPlanning(loc, h) == <<[loc EXCEPT !.pc = "plan_check"], h>>

\* _process_agent_tick after execute_action: log_agent_action, then
\* form_memory_from_action up to the await of the importance rating.  When the
\* logger raises, the handler of the outer try logs through the same logger:
\* "raise_once" is a logger that fails once, "raise_both" one that fails again in
\* the handler, so that the exception leaves _process_agent_tick.
LogOutcomes == {"ok", "raise_once", "raise_both"}

AfterExecute(t, loc, h, log) ==
    LET a == Agents[loc.idx]
        done == Log(h, <<"execute">>)
        failed == [done EXCEPT !.raised = @ \cup {a}]
        next == CASE log = "ok" -> <<[loc EXCEPT !.pc = "score"], done>>
                  [] log = "raise_once" -> NextAgent(loc, failed)
                  [] log = "raise_both" -> OnTickExcept(loc, failed)
    IN /\ log = "ok" \/ CanFail
       /\ SetTask(t, next[1], next[2], Outcome(log = "ok"))

\* choose_action_with_reasoning returns (the fallback OBSERVE on any failure),
\* then execute_action: a legal move changes the world state in memory and
\* awaits the store write of the location; every other action has its result
\* without an await.
Decide(t) ==
    /\ task[t].pc = "decide"
    /\ \E response \in inputs.responses, log \in LogOutcomes :
         LET a == AgentOf(t)
             action == choose_action_with_reasoning(a, response)
             loc == [task[t] EXCEPT !.action = action.action_type]
             h == [Log(hist[t], <<"decide">>) EXCEPT
                      !.wanted = NamedDestination(a, response)]
         IN IF action.action_type = "move" /\ can_move_to(a, action.target)
            THEN /\ log = "ok"
                 /\ agent_locations' =
                        [agent_locations EXCEPT ![a] = move_agent(a, action.target)]
                 /\ UNCHANGED store_locations
                 /\ SetTask(t, [loc EXCEPT !.pc = "move_persist"], h, faults)
            ELSE /\ AfterExecute(t, loc, h, log)
                 /\ UNCHANGED <<agent_locations, store_locations>>
    /\ UNCHANGED <<current_tick, is_running, importance_accumulator,
                   reflections_count, state_current_location,
                   store_current_location, store_states, memories,
                   memories_count, reflections, vector_index, plan_rows,
                   clock, call>>

\* _execute_move after storage.update_agent_location: a failed write is caught
\* by execute_action and becomes a failed result.
MovePersist(t) ==
    /\ task[t].pc = "move_persist"
    /\ \E ok \in BOOLEAN, log \in LogOutcomes :
         /\ ok \/ (CanFail /\ log = "ok")
         /\ store_locations' =
                IF ok THEN update_agent_location(AgentOf(t), agent_locations[AgentOf(t)])
                      ELSE store_locations
         /\ store_current_location' =
                IF ok THEN update_agent_location_state(AgentOf(t),
                                                       agent_locations[AgentOf(t)])
                      ELSE store_current_location
         /\ IF ok THEN AfterExecute(t, task[t], hist[t], log)
                  ELSE SetTask(t, [task[t] EXCEPT !.pc = "score"],
                               Log(hist[t], <<"execute">>), faults + 1)
    /\ UNCHANGED <<current_tick, is_running, importance_accumulator,
                   reflections_count, agent_locations, state_current_location,
                   store_states, memories, memories_count, reflections,
                   vector_index, plan_rows, clock, call>>

\* _score_memory_importance without the clamp.
memory_importance_unclamped(ok, completion) ==
    LET numbers == {i \in 1..Len(completion) : completion[i] >= 0}
    IN IF ~ok \/ numbers = {} THEN default_importance
       ELSE completion[CHOOSE i \in numbers : \A j \in numbers : i <= j]

\* _score_memory_importance: the first number re.findall finds in the
\* completion, clamped to 0..10; 3.0 when there is none and when the call of
\* the Text Service raised.
memory_importance(ok, completion) ==
    LET numbers == {i \in 1..Len(completion) : completion[i] >= 0}
        score == completion[CHOOSE i \in numbers : \A j \in numbers : i <= j]
    IN IF ~ok \/ numbers = {} THEN default_importance
       ELSE IF score > max_importance THEN max_importance
       ELSE IF score < 0 THEN 0
       ELSE score

\* _score_memory_importance with the highest rating as the default.
score_memory_importance_max(env) ==
    IF env.text_service = "up"
    THEN {memory_importance(TRUE, c) : c \in env.scores}
    ELSE {max_importance}

\* _score_memory_importance: the scores the environment can lead to.
score_memory_importance(env) ==
    {memory_importance(env.text_service = "up", c) : c \in env.scores}

\* _score_memory_importance returns; the Memory is built and _store_memory
\* awaits add_memory.
Score(t) ==
    /\ task[t].pc = "score"
    /\ \E s \in score_memory_importance(inputs) :
         SetTask(t, [task[t] EXCEPT !.pc = "add_memory", !.score = s], hist[t], faults)
    /\ UNCHANGED <<current_tick, is_running, importance_accumulator,
                   reflections_count, agent_locations, store_locations,
                   state_current_location, store_current_location,
                   store_states, memories, memories_count, reflections,
                   vector_index, plan_rows, clock, call>>

\* _store_memory with the failed insert logged and not raised: the memory is
\* returned as if it were stored and the accumulator is updated for it.
AddMemorySwallowed(t) ==
    LET a == AgentOf(t)
        after == importance_accumulator[a] + task[t].score
    IN /\ importance_accumulator' = [importance_accumulator EXCEPT ![a] = after]
       /\ SetTask(t, [task[t] EXCEPT !.pc = "update_persist", !.wv = after,
                                     !.action = "none"],
                  [Log(hist[t], <<"accumulate">>) EXCEPT
                      !.add_failed = @ \cup {a},
                      !.acc_before = importance_accumulator[a],
                      !.acc_after = after,
                      !.updates = @ + 1],
                  faults + 1)

\* _store_memory, `except Exception: ... raise`: the failed insert is raised
\* through form_memory_from_action to the handler of the memory block of
\* _process_agent_tick, which logs it and goes on to the planning check.
AddMemoryFailed(t) ==
    LET a == AgentOf(t)
        fail == [hist[t] EXCEPT !.raised = @ \cup {a},
                                !.add_failed = @ \cup {a},
                                !.acc_before = importance_accumulator[a]]
        next == ToPlanning([task[t] EXCEPT !.action = "none"], fail)
    IN /\ UNCHANGED importance_accumulator
       /\ SetTask(t, next[1], next[2], faults + 1)

\* _store_memory after add_memory: the row is in the store and the embedding is
\* awaited, or the insert has failed.
AddMemory(t) ==
    /\ task[t].pc = "add_memory"
    /\ \E ok \in BOOLEAN :
         /\ ok \/ CanFail
         /\ IF ok
            THEN /\ LET stored == add_memory(
                            Memory(AgentOf(t), ActionContent(task[t].action),
                                   MemoryType_ACTION, task[t].score, 0))
                    IN /\ memories' = stored.memories
                       /\ memories_count' = stored.memories_count
                 /\ SetTask(t, [task[t] EXCEPT !.pc = "embed", !.action = "none",
                                               !.mid = Len(memories) + 1],
                            [Log(hist[t], <<"memory">>) EXCEPT
                                !.formed = Len(memories) + 1],
                            faults)
                 /\ UNCHANGED importance_accumulator
            ELSE /\ UNCHANGED <<memories, memories_count>>
                 /\ AddMemoryFailed(t)
    /\ UNCHANGED <<current_tick, is_running, reflections_count,
                   agent_locations, store_locations,
                   state_current_location, store_current_location, store_states,
                   reflections, vector_index, plan_rows, clock, call>>

\* --------------------------------------------------------- ReflectionEngine
\* update_importance_accumulator with the accumulator reaching the threshold
\* left out.
AccumulatorCapped(a, delta) ==
    IF importance_accumulator[a] + delta >= reflection_threshold
    THEN importance_accumulator[a]
    ELSE importance_accumulator[a] + delta

\* update_importance_accumulator: agent.state.importance_accumulator += delta.
AccumulatorAfter(a, delta) == importance_accumulator[a] + delta

\* should_reflect with a strict comparison.
should_reflect_strict(a) == importance_accumulator[a] > reflection_threshold

\* should_reflect: the accumulator has reached the threshold.
should_reflect(a) == importance_accumulator[a] >= reflection_threshold

\* SQLiteStore.get_recent_memories(agent_id, limit): the ids (row numbers) of
\* the agent's newest `limit` memories.  MemoryManager.get_recent_memories
\* passes neither its `hours` nor a type filter on.
get_recent_memories(a, limit) ==
    LET own == {i \in 1..Len(memories) : memories[i].agent_id = a}
    IN {i \in own : Cardinality({j \in own : j > i}) < limit}

\* _get_reflection_memories: the recent memories whose memory_type differs from
\* the enum member MemoryType.REFLECTION, sorted by importance (descending,
\* stable on the newest-first list), the first 20 of them.
get_reflection_memories(a) ==
    LET recent == get_recent_memories(a, recent_limit)
        kept == {i \in recent : memories[i].memory_type # MemoryType_REFLECTION}
        before(j, i) ==
            \/ memories[j].importance_score > memories[i].importance_score
            \/ /\ memories[j].importance_score = memories[i].importance_score
               /\ j > i
    IN {i \in kept : Cardinality({j \in kept : before(j, i)}) < top_memories}

\* _create_reflection: the cleaned insight, the ids of the candidate memories
\* and the fixed importance.
Reflection(a, insight, supporting, ts) ==
    [agent_id |-> a, content |-> insight, supporting_memories |-> supporting,
     importance_score |-> reflection_importance, timestamp |-> ts]

\* trigger_reflection returns to _process_agent_tick.  A non-empty list is
\* handed to sim_logger.log_agent_reflection, which SimulationLogger does not
\* define: the AttributeError is caught by the handler of the memory block.
\* Either way the planning check follows.
ReturnReflections(t, n, f) ==
    LET h == [Log(hist[t], <<"returned">>) EXCEPT
                 !.returned = n,
                 !.raised = IF n > 0 THEN @ \cup {AgentOf(t)} ELSE @]
        next == ToPlanning(task[t], h)
    IN SetTask(t, next[1], next[2], f)

\* form_memory_from_action returns the memory; update_importance_accumulator
\* adds its importance in memory and awaits the store write of the state.
FormedMemory(t, emb_failed, f) ==
    LET a == AgentOf(t)
        after == AccumulatorAfter(a, memories[task[t].mid].importance_score)
    IN /\ importance_accumulator' = [importance_accumulator EXCEPT ![a] = after]
       /\ SetTask(t, [task[t] EXCEPT !.pc = "update_persist", !.wv = after],
                  [Log(hist[t], <<"accumulate">>) EXCEPT
                      !.acc_before = importance_accumulator[a],
                      !.acc_after = after,
                      !.updates = @ + 1,
                      !.emb_failed = emb_failed],
                  f)

\* _store_memory_embedding with the failure raised to the caller: the handler
\* of the memory block skips the accumulator.
EmbedFailedRaises(t) ==
    LET h == [hist[t] EXCEPT !.emb_failed = TRUE, !.raised = @ \cup {AgentOf(t)}]
        next == ToPlanning(task[t], h)
    IN /\ UNCHANGED importance_accumulator
       /\ SetTask(t, next[1], next[2], TextServiceOutcome(FALSE))

\* _store_memory_embedding, `except Exception`: a failed embedding or index
\* insert is logged and not raised.
EmbedFailed(t) == FormedMemory(t, TRUE, TextServiceOutcome(FALSE))

\* _store_memory_embedding returns in form_memory_from_action (the embedding
\* is a call of the Text Service).
Embed(t) ==
    /\ task[t].pc = "embed"
    /\ \E ok \in BOOLEAN :
         /\ TextServiceCan(ok)
         /\ IF ok THEN /\ vector_index' = vector_index \cup {task[t].mid}
                       /\ FormedMemory(t, FALSE, faults)
                  ELSE /\ UNCHANGED vector_index
                       /\ EmbedFailed(t)
    /\ UNCHANGED <<current_tick, is_running, reflections_count,
                   agent_locations, store_locations,
                   state_current_location, store_current_location, store_states, memories,
                   memories_count, reflections, plan_rows, clock, call>>

\* update_importance_accumulator after update_agent_state (a failed write is
\* logged and not raised), then should_reflect and, when it holds,
\* trigger_reflection up to the store read of _get_reflection_memories.
UpdatePersist(t) ==
    /\ task[t].pc = "update_persist"
    /\ \E ok \in BOOLEAN :
         LET a == AgentOf(t)
             should == should_reflect(a)
             h1 == [Log(hist[t], <<"should_reflect">>) EXCEPT
                       !.check = should, !.check_acc = importance_accumulator[a]]
             h2 == [Log(h1, <<"trigger">>) EXCEPT
                       !.trig_acc = importance_accumulator[a],
                       !.trig_store = store_states'[a]]
             plan == ToPlanning(task[t], h1)
         IN /\ ok \/ CanFail
            /\ store_states' = IF ok THEN [store_states EXCEPT ![a] = task[t].wv]
                                     ELSE store_states
            /\ store_current_location' = IF ok THEN update_agent_state_location(a)
                                                 ELSE store_current_location
            /\ IF should
               THEN SetTask(t, [task[t] EXCEPT !.pc = "r_get"], h2, Outcome(ok))
               ELSE SetTask(t, plan[1], plan[2], Outcome(ok))
    /\ UNCHANGED <<current_tick, is_running, importance_accumulator,
                   reflections_count, agent_locations, store_locations,
                   state_current_location, memories, memories_count,
                   reflections, vector_index, plan_rows, clock, call>>

\* _get_reflection_memories returns in trigger_reflection: without candidates
\* the empty list is returned, else generate_reflection is awaited.  A failed
\* store read is caught by MemoryManager.get_recent_memories and reads as none.
GetReflectionMemories(t) ==
    /\ task[t].pc = "r_get"
    /\ \E ok \in BOOLEAN :
         LET found == IF ok THEN get_reflection_memories(AgentOf(t)) ELSE {}
         IN /\ ok \/ CanFail
            /\ IF found = {}
               THEN ReturnReflections(t, 0, Outcome(ok))
               ELSE SetTask(t, [task[t] EXCEPT !.pc = "r_generate", !.cands = found],
                            hist[t], faults)
    /\ UNCHANGED <<current_tick, is_running, importance_accumulator,
                   reflections_count, agent_locations, store_locations,
                   state_current_location, store_current_location,
                   store_states, memories, memories_count, reflections,
                   vector_index, plan_rows, clock, call>>

\* generate_reflection returns the n insights parsed from the completion or
\* raises;
\* without insights the empty list is returned, else the reflections are built
\* and the first one's add_reflection is awaited.
GenerateReflection(t) ==
    /\ task[t].pc = "r_generate"
    /\ \E lines \in inputs.insights, ok \in BOOLEAN :
       LET n == Len(parse_numbered_list(lines, max_insights))
       IN /\ TextServiceCan(ok)
          /\ ~ok => lines = <<>>
          /\ IF n = 0
             THEN ReturnReflections(t, 0, TextServiceOutcome(ok))
             ELSE SetTask(t, [task[t] EXCEPT !.pc = "r_add_reflection",
                                             !.insights = n, !.k = 1],
                          hist[t], faults)
    /\ UNCHANGED <<current_tick, is_running, importance_accumulator,
                   reflections_count, agent_locations, store_locations,
                   state_current_location, store_current_location,
                   store_states, memories, memories_count, reflections,
                   vector_index, plan_rows, clock, call>>

\* _store_reflection_as_memory after add_reflection: the reflection is in the
\* store and the companion memory's add_memory is awaited; a failed insert is
\* raised to trigger_reflection, which returns the empty list.
AddReflection(t) ==
    /\ task[t].pc = "r_add_reflection"
    /\ \E ok \in BOOLEAN :
         /\ ok \/ CanFail
         /\ IF ok
            THEN /\ reflections' = Append(reflections,
                        Reflection(AgentOf(t), task[t].k, task[t].cands,
                                   Len(reflections) + 1))
                 /\ SetTask(t, [task[t] EXCEPT !.pc = "r_add_memory",
                                               !.rid = Len(reflections) + 1],
                            [hist[t] EXCEPT !.persisted = @ + 1], faults)
            ELSE /\ UNCHANGED reflections
                 /\ ReturnReflections(t, 0, faults + 1)
    /\ UNCHANGED <<current_tick, is_running, importance_accumulator,
                   reflections_count, agent_locations, store_locations,
                   state_current_location, store_current_location,
                   store_states, memories, memories_count, vector_index,
                   plan_rows, clock, call>>

\* _store_memory of the companion memory after add_memory: the embedding is
\* awaited; a failed insert is raised to trigger_reflection.
AddCompanionMemory(t) ==
    /\ task[t].pc = "r_add_memory"
    /\ \E ok \in BOOLEAN :
         LET r == reflections[task[t].rid]
         IN /\ ok \/ CanFail
            /\ IF ok
               THEN /\ LET stored == add_memory(
                               Memory(r.agent_id, CompanionContent(r.content),
                                      MemoryType_REFLECTION, r.importance_score,
                                      r.timestamp))
                       IN /\ memories' = stored.memories
                          /\ memories_count' = stored.memories_count
                    /\ SetTask(t, [task[t] EXCEPT !.pc = "r_embed",
                                                  !.mid = Len(memories) + 1],
                               [hist[t] EXCEPT !.companions = @ + 1], faults)
               ELSE /\ UNCHANGED <<memories, memories_count>>
                    /\ ReturnReflections(t, 0, faults + 1)
    /\ UNCHANGED <<current_tick, is_running, importance_accumulator,
                   reflections_count, agent_locations, store_locations,
                   state_current_location, store_current_location,
                   store_states, reflections, vector_index, plan_rows, clock,
                   call>>

\* trigger_reflection's loop over the reflections, left after the first one.
first_reflection_stored(loc) == loc.k >= 1

\* trigger_reflection, `for reflection in reflections`: the loop is left after
\* the last reflection's _store_reflection_as_memory.
reflections_stored(loc) == loc.k >= loc.insights

\* trigger_reflection after the last reflection is stored, with the reset of
\* the accumulator left out.
AfterPersistNoReset(t, f) ==
    /\ UNCHANGED importance_accumulator
    /\ SetTask(t, [task[t] EXCEPT !.pc = "r_reset_persist",
                                  !.wv = importance_accumulator[AgentOf(t)]],
               hist[t], f)

\* trigger_reflection after the last reflection is stored:
\* _reset_importance_accumulator sets the accumulator to 0.0 in memory and
\* awaits the store write of the state.
AfterPersist(t, f) ==
    /\ importance_accumulator' = [importance_accumulator EXCEPT ![AgentOf(t)] = 0]
    /\ SetTask(t, [task[t] EXCEPT !.pc = "r_reset_persist", !.wv = 0],
               Log(hist[t], <<"reset">>), f)

\* _store_memory_embedding of the companion memory returns (a failure is
\* logged and not raised): the next reflection is stored, or the reset begins.
EmbedCompanion(t) ==
    /\ task[t].pc = "r_embed"
    /\ \E ok \in BOOLEAN :
         /\ ok \/ CanFail
         /\ vector_index' = IF ok THEN vector_index \cup {task[t].mid}
                                  ELSE vector_index
         /\ IF ~reflections_stored(task[t])
            THEN /\ SetTask(t, [task[t] EXCEPT !.pc = "r_add_reflection", !.k = @ + 1],
                            hist[t], Outcome(ok))
                 /\ UNCHANGED importance_accumulator
            ELSE AfterPersist(t, Outcome(ok))
    /\ UNCHANGED <<current_tick, is_running, reflections_count,
                   agent_locations, store_locations,
                   state_current_location, store_current_location, store_states, memories,
                   memories_count, reflections, plan_rows, clock, call>>

\* _reset_importance_accumulator after update_agent_state (a failed write is
\* logged and not raised), then _update_reflection_metadata: the count is
\* raised in memory and the store write of the state is awaited.
ResetPersist(t) ==
    /\ task[t].pc = "r_reset_persist"
    /\ \E ok \in BOOLEAN :
         LET a == AgentOf(t)
         IN /\ ok \/ CanFail
            /\ store_states' = IF ok THEN [store_states EXCEPT ![a] = task[t].wv]
                                     ELSE store_states
            /\ store_current_location' = IF ok THEN update_agent_state_location(a)
                                                 ELSE store_current_location
            /\ reflections_count' =
                   [reflections_count EXCEPT ![a] = @ + task[t].insights]
            /\ SetTask(t, [task[t] EXCEPT !.pc = "r_meta_persist",
                                          !.wv = importance_accumulator[a]],
                       hist[t], Outcome(ok))
    /\ UNCHANGED <<current_tick, is_running, importance_accumulator,
                   agent_locations, store_locations,
                   state_current_location, memories,
                   memories_count, reflections, vector_index, plan_rows,
                   clock, call>>

\* _update_reflection_metadata after update_agent_state (a failed write is
\* logged and not raised); trigger_reflection returns the reflections.
MetadataPersist(t) ==
    /\ task[t].pc = "r_meta_persist"
    /\ \E ok \in BOOLEAN :
         /\ ok \/ CanFail
         /\ store_states' = IF ok THEN [store_states EXCEPT ![AgentOf(t)] = task[t].wv]
                                  ELSE store_states
         /\ store_current_location' =
                IF ok THEN update_agent_state_location(AgentOf(t))
                      ELSE store_current_location
         /\ ReturnReflections(t, task[t].insights, Outcome(ok))
    /\ UNCHANGED <<current_tick, is_running, importance_accumulator,
                   reflections_count, agent_locations, store_locations,
                   state_current_location, memories, memories_count,
                   reflections, vector_index, plan_rows, clock, call>>

\* datetime.utcnow(), datetime.now() and date.today(): the local time is the
\* UTC time plus the offset of the local time zone.
utcnow == clock
now == clock + inputs.utc_offset
today == now \div 24

\* ------------------------------------------------- MemoryManager, retrieval
\* _calculate_time_decay: exp(-hours_ago * ln 2 / 24) in thousandths, computed
\* hour by hour (2 ** (-1/24) is 0.9715).
RECURSIVE calculate_time_decay(_)
calculate_time_decay(hours_ago) ==
    IF hours_ago <= 0 THEN 1000
    ELSE (calculate_time_decay(hours_ago - 1) * 9715) \div 10000

\* VectorStore.search_memories with the filter on the agent left out.
search_memories_unfiltered(a, ranking, limit) ==
    IF limit <= 0 THEN <<>>
    ELSE SubSeq(ranking, 1, Min(limit, Len(ranking)))

\* VectorStore.search_memories(query_embedding, agent_id, limit): the index is
\* asked for the `limit` nearest entries whose metadata has the agent_id.
\* ranking is the order of the entries of the index by their distance to the
\* query, each with its similarity (in thousandths); a query for no result
\* is refused by the index, which search_memories catches and answers with
\* the empty list.
search_memories(a, ranking, limit) ==
    LET own == SelectSeq(ranking, LAMBDA e : memories[e.id].agent_id = a)
    IN IF limit <= 0 THEN <<>>
       ELSE SubSeq(own, 1, Min(limit, Len(own)))

\* SQLiteStore.get_memory(memory_id): the row with the id, as a sequence of
\* at most one memory (empty: None).
get_memory(id) == IF id \in 1..Len(memories) THEN <<memories[id]>> ELSE <<>>

\* retrieve_relevant_memories with a candidate that fails to load ending the
\* whole call with the empty list.
retrieve_all_or_nothing(a, ranking, limit, ok, loads) ==
    IF ~ok \/ \E i \in 1..Len(search_memories(a, ranking, limit * 2)) : ~loads[i]
    THEN <<>>
    ELSE LET found == search_memories(a, ranking, limit * 2)
         IN SubSeq([i \in 1..Len(found) |->
                       [id |-> found[i].id, score |-> 6 * found[i].similarity]],
                   1, Min(limit, Len(found)))

\* retrieve_relevant_memories(agent_id, context, limit): the empty list when
\* the embedding of the query raised (ok is false); else the candidates of
\* the index, limit * 2 of them, are loaded one by one, a candidate that is
\* missing from the store or whose load raises (loads[i] is false) being
\* skipped; each one's score is 0.6 semantic + 0.2 recency + 0.2 importance
\* (in ten-thousandths); the results are sorted by descending score (a stable
\* sort) and the first `limit` returned.
retrieve_relevant_memories(a, ranking, limit, ok, loads) ==
    LET found == search_memories(a, ranking, limit * 2)
        loaded == {i \in 1..Len(found) : loads[i] /\ get_memory(found[i].id) # <<>>}
        score(i) ==
            LET memory == get_memory(found[i].id)[1]
            IN 6 * found[i].similarity
                 + 2 * calculate_time_decay(utcnow - memory.timestamp)
                 + 2 * (memory.importance_score * 100)
        before(j, i) == score(j) > score(i) \/ (score(j) = score(i) /\ j < i)
        at(r) == CHOOSE i \in loaded : Cardinality({j \in loaded : before(j, i)}) = r - 1
        sorted == [r \in 1..Cardinality(loaded) |->
                      [id |-> found[at(r)].id, score |-> score(at(r))]]
    IN IF ~ok THEN <<>>
       ELSE SubSeq(sorted, 1, Min(limit, Len(sorted)))

\* ----------------------------------------------------------- PlanningEngine
\* default_times of _parse_time_range; a time of day is its number of
\* minutes after midnight.
default_times(period) ==
    CASE period = "morning" -> [start_time |-> 9 * 60, duration_minutes |-> 180]
      [] period = "afternoon" -> [start_time |-> 13 * 60, duration_minutes |-> 240]
      [] period = "evening" -> [start_time |-> 18 * 60, duration_minutes |-> 180]

\* _parse_time_range: an explicit range gives its start and the minutes to
\* its end (on the next day when the end is earlier than the start); without
\* one, the first period of default_times the text contains gives its default,
\* and without any the afternoon's.  time(h, m) raises a ValueError for an
\* hour above 23 or a minute above 59, which the handler turns into 12:00 and
\* 120 minutes.
parse_time_range(text) ==
    LET r == text.range
        time_raises(h, m) == h > 23 \/ m > 59
        start == r[1] * 60 + r[2]
        end == r[3] * 60 + r[4]
        named == {i \in 1..Len(PeriodNames) : PeriodNames[i] \in text.periods}
    IN IF r # <<>>
       THEN IF time_raises(r[1], r[2]) \/ time_raises(r[3], r[4])
            THEN [start_time |-> 12 * 60, duration_minutes |-> 120]
            ELSE [start_time |-> start,
                  duration_minutes |-> IF end < start THEN end + 24 * 60 - start
                                                      ELSE end - start]
       ELSE IF named # {}
            THEN default_times(PeriodNames[CHOOSE i \in named : \A j \in named : i <= j])
            ELSE default_times("afternoon")

\* Task(...), HourlyBlock(...), DailyPlan(...) as _parse_plan_response and
\* get_current_task build them: no status is given, and a default is not
\* validated, so that each status is the enum member TaskStatus.PENDING; the
\* action type is validated and held as its value; updated_at is utcnow().
Task(id, description, action_type, duration, location) ==
    [id |-> id, description |-> description, action_type |-> action_type,
     duration_minutes |-> duration, location |-> location,
     status |-> TaskStatus_PENDING]

HourlyBlock(start_time, duration, activity, location, tasks) ==
    [activity |-> activity, location |-> location, start_time |-> start_time,
     duration_minutes |-> duration, status |-> TaskStatus_PENDING, tasks |-> tasks]

\* Task(duration_minutes=...) raises a ValidationError outside ge=1, le=480.
Task_raises(duration) == duration < 1 \/ duration > 480

DailyPlan(id, a, date, blocks) ==
    [id |-> id, agent_id |-> a, date |-> date, goals |-> <<"goal">>,
     hourly_blocks |-> blocks, status |-> TaskStatus_PENDING,
     updated_at |-> utcnow]

\* uuid4(): an id that no stored plan has.
NewPlanId ==
    LET ids == {plan_rows[i].id : i \in 1..Len(plan_rows)}
    IN IF ids = {} THEN 1 ELSE 1 + CHOOSE m \in ids : \A k \in ids : k <= m

\* _parse_llm_planning_response: the block data of each period block the
\* pattern finds in the answer (an answer is the sequence of the time-range
\* texts of its well-formed blocks); the activity is the block's own text and
\* the location a place.
block_data(answer) ==
    [i \in 1..Len(answer) |->
        [start_time |-> parse_time_range(answer[i]).start_time,
         duration_minutes |-> parse_time_range(answer[i]).duration_minutes,
         activity |-> <<"activity", i>>, location |-> "home"]]

\* _parse_plan_response, `except Exception: return None`: building the Task
\* or the HourlyBlock (ge=5, le=720) of some block raised a ValidationError.
parse_plan_response_raises(answer) ==
    \E i \in 1..Len(answer) :
        LET duration == block_data(answer)[i].duration_minutes
        IN Task_raises(duration) \/ duration < 5 \/ duration > 720

\* _parse_plan_response: one block with one task (_infer_action_type: WAIT for
\* an activity without a keyword) per block of the plan data.
parse_plan_response(a, answer) ==
    LET data == block_data(answer)
    IN DailyPlan(NewPlanId, a, today,
                 [i \in 1..Len(data) |->
                     HourlyBlock(data[i].start_time, data[i].duration_minutes,
                                 data[i].activity, data[i].location,
                                 <<Task(<<NewPlanId, i>>, data[i].activity, "wait",
                                        data[i].duration_minutes, data[i].location)>>)])

\* model_dump_json: the status of the plan, of its blocks and of their tasks
\* is written as the value of the enum member.
model_dump_json(plan) ==
    [plan EXCEPT
        !.status = EnumValue(@),
        !.hourly_blocks =
            [i \in 1..Len(@) |->
                [@[i] EXCEPT
                    !.status = EnumValue(@),
                    !.tasks = [k \in 1..Len(@) |-> [@[k] EXCEPT !.status = EnumValue(@)]]]]]

\* model_validate_json: a status is validated as the member with that value
\* and, with use_enum_values, held as the member's value.
TaskStatusOf(v) == CHOOSE m \in TaskStatuses : EnumValue(m) = v
UseEnumValue(v) == EnumValue(TaskStatusOf(v))
model_validate_json(plan) ==
    [plan EXCEPT
        !.status = UseEnumValue(@),
        !.hourly_blocks =
            [i \in 1..Len(@) |->
                [@[i] EXCEPT
                    !.status = UseEnumValue(@),
                    !.tasks = [k \in 1..Len(@) |-> [@[k] EXCEPT !.status = UseEnumValue(@)]]]]]

\* SQLiteStore.add_plan: INSERT OR REPLACE by the plan id, created_at is the
\* time of the insert.
add_plan(rows, id, a, content, date_for) ==
    LET kept == SelectSeq(rows, LAMBDA r : r.id # id)
    IN Append(kept, [id |-> id, agent_id |-> a, plan_type |-> "daily",
                     content |-> content, date_for |-> date_for])

\* SQLiteStore.get_plans(agent_id, "daily", date_for, limit=1): the matching
\* row with the newest created_at, as a sequence of at most one row.
get_plans(rows, a, date_for) ==
    LET found == {i \in 1..Len(rows) :
                     /\ rows[i].agent_id = a
                     /\ rows[i].plan_type = "daily"
                     /\ rows[i].date_for = date_for}
    IN IF found = {} THEN <<>>
       ELSE <<rows[CHOOSE i \in found : \A j \in found : j <= i]>>

\* get_current_daily_plan: the plan of the newest row for today, as a
\* sequence of at most one plan (empty: None).
current_daily_plan(rows, a) ==
    LET plans == get_plans(rows, a, today)
    IN IF plans = <<>> THEN <<>> ELSE <<model_validate_json(plans[1].content)>>

get_current_daily_plan(a) == current_daily_plan(plan_rows, a)

\* _store_daily_plan evaluates daily_plan.status.value: an AttributeError
\* unless the status is an enum member.
store_daily_plan_raises(plan) == plan.status \notin TaskStatuses

\* _store_daily_plan: the rows after add_plan.
store_daily_plan(rows, plan) ==
    add_plan(rows, plan.id, plan.agent_id, model_dump_json(plan), plan.date)

\* should_plan: true without a plan for today and when now() is more than 6
\* hours after the plan's updated_at; else get_recent_memories is called with
\* `since`, a parameter it does not have: the TypeError is caught by
\* should_plan's handler, which answers false.
should_plan(a) ==
    LET current == get_current_daily_plan(a)
    IN IF current = <<>> THEN TRUE
       ELSE IF now - current[1].updated_at > plan_max_age THEN TRUE
       ELSE FALSE

\* _build_planning_context evaluates m.memory_type.value for each recent
\* memory: an AttributeError (memory_type is a string) unless there is none.
build_planning_context_raises(a, read_ok) ==
    read_ok /\ get_recent_memories(a, planning_limit) # {}

\* generate_daily_plan: the stage that fails, if any.  _build_planning_context
\* raises to the handler of generate_daily_plan; a failed call of the Text
\* Service is caught by _generate_llm_plan, a ValidationError by
\* _parse_plan_response, and each returns None; _store_daily_plan re-raises a
\* failed write (or its own AttributeError) to the handler.
generate_daily_plan_failure(a, answer, read_ok, ok) ==
    CASE build_planning_context_raises(a, read_ok) -> "context"
      [] ~build_planning_context_raises(a, read_ok) /\ ~ok -> "external"
      [] ~build_planning_context_raises(a, read_ok) /\ ok
            /\ parse_plan_response_raises(answer) -> "validation"
      [] ~build_planning_context_raises(a, read_ok) /\ ok
            /\ ~parse_plan_response_raises(answer)
            /\ store_daily_plan_raises(parse_plan_response(a, answer)) -> "store"
      [] OTHER -> "none"

\* generate_daily_plan with a failed write of the plan leaving its row in
\* the store.
generate_daily_plan_partial(a, answer, read_ok, ok) ==
    IF generate_daily_plan_failure(a, answer, read_ok, ok) \notin {"none", "external"}
    THEN plan_rows
    ELSE store_daily_plan(plan_rows, parse_plan_response(a, answer))

\* generate_daily_plan: the rows of the store when it returns.  The plan is
\* stored when no stage failed; every exception is caught and None returned.
generate_daily_plan(a, answer, read_ok, ok) ==
    IF generate_daily_plan_failure(a, answer, read_ok, ok) # "none"
    THEN plan_rows
    ELSE store_daily_plan(plan_rows, parse_plan_response(a, answer))

\* The external calls of generate_daily_plan: the store read of the recent
\* memories (a failure reads as none) and the Text Service and store write.
GenerateOutcomes ==
    {o \in [read_ok : BOOLEAN, ok : BOOLEAN] :
        LET f1 == IF o.read_ok THEN 0 ELSE 1
            f2 == IF o.ok \/ ~TextServiceUp THEN 0 ELSE 1
        IN /\ faults + f1 + f2 <= inputs.faults
           /\ ~TextServiceUp => ~o.ok}

GenerateFaults(o) ==
    faults + (IF o.read_ok THEN 0 ELSE 1) + (IF o.ok \/ ~TextServiceUp THEN 0 ELSE 1)

\* update_task_status: the first task with the id in the current plan gets
\* the status and the plan is stored again; true when that has happened,
\* false without a plan or a task, and when anything raised.
update_task_status(a, task_id, status) ==
    LET current == get_current_daily_plan(a)
        plan == current[1]
        hits == UNION {{<<i, k>> : k \in {k \in 1..Len(plan.hourly_blocks[i].tasks) :
                                              plan.hourly_blocks[i].tasks[k].id = task_id}} :
                       i \in 1..Len(plan.hourly_blocks)}
        first == CHOOSE h \in hits :
                    \A g \in hits : h[1] < g[1] \/ (h[1] = g[1] /\ h[2] <= g[2])
        updated == [plan EXCEPT
                       !.hourly_blocks[first[1]].tasks[first[2]].status = status]
    IN IF current = <<>> THEN [result |-> FALSE, rows |-> plan_rows]
       ELSE IF hits = {} THEN [result |-> FALSE, rows |-> plan_rows]
       ELSE IF store_daily_plan_raises(updated)
            THEN [result |-> FALSE, rows |-> plan_rows]
            ELSE [result |-> TRUE, rows |-> store_daily_plan(plan_rows, updated)]

\* HourlyBlock.end_time: the time of day duration_minutes after start_time.
end_time(block) == (block.start_time + block.duration_minutes) % (24 * 60)

\* get_current_task: the first block of the current plan with
\* start_time <= datetime.now().time() <= end_time and a status in
\* [TaskStatus.PENDING, TaskStatus.IN_PROGRESS] (a value string is equal to
\* no enum member), and in it the first task with such a status, or a WAIT
\* task built from the block; a sequence of at most one task (empty: None).
\* The clock counts hours.
get_current_task(a) ==
    LET current == get_current_daily_plan(a)
        blocks == current[1].hourly_blocks
        current_time == (now % 24) * 60
        is_open(status) == status \in {TaskStatus_PENDING, TaskStatus_IN_PROGRESS}
        active == {i \in 1..Len(blocks) :
                      /\ blocks[i].start_time <= current_time
                      /\ current_time <= end_time(blocks[i])
                      /\ is_open(blocks[i].status)}
        block == blocks[CHOOSE i \in active : \A j \in active : i <= j]
        open == {k \in 1..Len(block.tasks) : is_open(block.tasks[k].status)}
    IN IF current = <<>> THEN <<>>
       ELSE IF active = {} THEN <<>>
       ELSE IF open # {} THEN <<block.tasks[CHOOSE k \in open : \A j \in open : k <= j]>>
       ELSE IF Task_raises(block.duration_minutes) THEN <<>>
       ELSE <<Task(<<NewPlanId, 0>>, block.activity, "wait",
                   block.duration_minutes, block.location)>>

\* should_plan returns in _process_agent_tick: when true, generate_daily_plan
\* is awaited, else the pipeline of the agent is done.
PlanCheck(t) ==
    /\ task[t].pc = "plan_check"
    /\ LET a == AgentOf(t)
             h == Log(hist[t], <<"should_plan">>)
             next == NextAgent(task[t], h)
         IN IF should_plan(a)
            THEN SetTask(t, [task[t] EXCEPT !.pc = "plan_generate"], h, faults)
            ELSE SetTask(t, next[1], next[2], faults)
    /\ UNCHANGED <<current_tick, is_running, importance_accumulator,
                   reflections_count, agent_locations, store_locations,
                   state_current_location, store_current_location,
                   store_states, memories, memories_count, reflections,
                   vector_index, plan_rows, clock, call>>

\* generate_daily_plan returns: the stored plan (logging it raises an
\* AttributeError that the handler of the planning block catches) or None.
GeneratePlan(t) ==
    /\ task[t].pc = "plan_generate"
    /\ \E o \in GenerateOutcomes, answer \in inputs.blocks :
         LET a == AgentOf(t)
             next == NextAgent(task[t], hist[t])
         IN /\ plan_rows' = generate_daily_plan(a, answer, o.read_ok, o.ok)
            /\ SetTask(t, next[1], next[2], GenerateFaults(o))
    /\ UNCHANGED <<current_tick, is_running, importance_accumulator,
                   reflections_count, agent_locations, store_locations,
                   state_current_location, store_current_location,
                   store_states, memories, memories_count, reflections,
                   vector_index, clock, call>>

\* _on_tick after the agent summaries: log_tick_complete, and the tick is
\* complete (when the logger raises, the exception leaves _on_tick and is
\* caught and logged by advance_tick).  The caller of
\* step_simulation is back in the command loop; the background loop sleeps.
TickComplete(t) ==
    /\ task[t].pc = "summary"
    /\ \E ok \in BOOLEAN :
         /\ TickLogCan(ok)
         /\ SetTask(t,
                    [task[t] EXCEPT !.pc = IF t = "fg" THEN "idle" ELSE "sleep"],
                    IF ok THEN hist[t]
                          ELSE [hist[t] EXCEPT !.raised = @ \cup {"_on_tick"}],
                    TickLogOutcome(ok))
    /\ UNCHANGED <<current_tick, is_running, importance_accumulator,
                   reflections_count, agent_locations, store_locations,
                   state_current_location, store_current_location,
                   store_states, memories, memories_count, reflections,
                   vector_index, plan_rows, clock, call>>

\* ------------------------------------------------------------ specifications
Pipeline(t) ==
    \/ Decide(t)
    \/ MovePersist(t)
    \/ Score(t)
    \/ AddMemory(t)
    \/ Embed(t)
    \/ UpdatePersist(t)
    \/ GetReflectionMemories(t)
    \/ GenerateReflection(t)
    \/ AddReflection(t)
    \/ AddCompanionMemory(t)
    \/ EmbedCompanion(t)
    \/ ResetPersist(t)
    \/ MetadataPersist(t)
    \/ PlanCheck(t)
    \/ GeneratePlan(t)
    \/ TickComplete(t)

\* Every interleaving of the command loop and the background task.
Next ==
    \/ StartSimulation
    \/ PauseSimulation
    \/ StepSimulation
    \/ SimulationLoop
    \/ \E t \in Tasks : Pipeline(t)

SpecConcurrent == InitSteady /\ [][Next]_vars

\* The same interleavings with a logger of the tick summary that can raise.
InitTime ==
    InitWith([SteadyInputs EXCEPT !.tick_log = "flaky"], {AgentIds}, 2, AtHome)

SpecTime == InitTime /\ [][Next]_vars

\* The ticks of step_simulation alone: one caller, no background task.
NextStep ==
    \/ StepSimulation
    \/ Pipeline("fg")

Spec == Init /\ [][NextStep]_vars

\* The ticks of step_simulation in an environment in which one external call
\* can fail and every completion of the reflection prompt holds an insight.
\* Every await of a tick returns or raises: a pipeline that can take a step
\* takes it.  Nothing makes the command loop step again.
LiveInputs ==
    [SteadyInputs EXCEPT !.faults = MaxFaults, !.insights = {<<1>>, <<1, 2>>}]

InitLive == InitWith(LiveInputs, {AgentIds}, 2, AtHome)

SpecLive == InitLive /\ [][NextStep]_vars /\ WF_vars(Pipeline("fg"))

\* agents.reflections_count in the store: create_agent inserts the count of
\* the configured agent, and no statement updates the column.
store_reflections_count(a) == 0

\* A restart: the controller is gone and a new one is initialized on the
\* same store.  The new TimeManager starts at tick 0; _load_agents takes
\* every agent from the store (get_agent: reflections_count from the table
\* agents, the state from agent_states) and, the new world state holding no
\* location, places it at its home, which update_agent_location writes.
\* The number of stored memories bounds the restarts.
Restart ==
    /\ task["fg"].pc = "idle"
    /\ task["bg"].pc = "none"
    /\ Len(memories) <= MaxRows
    /\ current_tick' = 0
    /\ is_running' = FALSE
    /\ importance_accumulator' = store_states
    /\ reflections_count' = [a \in AgentIds |-> store_reflections_count(a)]
    /\ state_current_location' = store_current_location
    /\ agent_locations' = [a \in AgentIds |-> AgentLocation(home_location(a))]
    /\ store_locations' = {[agent_id |-> a, place_id |-> home_location(a)] :
                              a \in AgentIds}
    /\ store_current_location' = [a \in AgentIds |-> home_location(a)]
    /\ hist' = [t \in Tasks |-> NoHist]
    /\ UNCHANGED <<store_states, memories, memories_count, reflections,
                   vector_index, plan_rows, clock, call, task, faults, inputs>>

\* Ticks of step_simulation and restarts, in the environment in which
\* nothing fails.
NextRestart ==
    \/ NextStep
    \/ Restart

SpecRestart == InitSteady /\ [][NextRestart]_vars

\* ------------------------------------------- calls of the behaviour system
\* The actions execute_action is called with: a move to each place and to a
\* place that does not exist, and the actions without a target.
ExecutableActions(a) ==
    {Action(a, "move", target) : target \in Places \cup {"nowhere"}}
        \cup {Action(a, type, None) : type \in {"wait", "observe", "interact"}}

\* choose_action_with_reasoning(agent), called on its own: an agent that is
\* not placed is placed at its home by _build_agent_context (in memory, then
\* in the store: a failed write is caught by choose_action_with_reasoning,
\* which returns the fallback).
CallChooseAction ==
    /\ \E a \in AgentIds, response \in Responses, ok \in BOOLEAN :
         LET unplaced == agent_locations[a].place_id = None
             placed == IF unplaced THEN AgentLocation(home_location(a))
                       ELSE agent_locations[a]
         IN /\ ok \/ (unplaced /\ CanFail)
            /\ agent_locations' = [agent_locations EXCEPT ![a] = placed]
            /\ store_locations' = IF unplaced /\ ok THEN update_agent_location(a, placed)
                                                  ELSE store_locations
            /\ store_current_location' =
                   IF unplaced /\ ok THEN update_agent_location_state(a, placed)
                                     ELSE store_current_location
            /\ faults' = Outcome(ok)
            /\ call' = [op |-> "choose_action", agent |-> a, arg |-> response,
                        before |-> placed,
                        result |-> IF ok THEN choose_action_with_reasoning(a, response)
                                         ELSE ObserveAction(a)]
    /\ UNCHANGED <<current_tick, is_running, importance_accumulator,
                   reflections_count, state_current_location, store_states,
                   memories, memories_count, reflections, vector_index,
                   plan_rows, clock, task, hist, inputs>>

\* execute_action(action), called on its own: the success of its result.  A
\* move that can_move_to allows changes the location in memory and writes it
\* to the store; a failed write is caught by execute_action, whose result is
\* then a failure.  The other actions succeed.
CallExecuteAction ==
    /\ \E a \in AgentIds, ok \in BOOLEAN :
         \E action \in ExecutableActions(a) :
            LET legal == action.action_type = "move" /\ can_move_to(a, action.target)
            IN /\ ok \/ (legal /\ CanFail)
               /\ agent_locations' =
                      IF legal
                      THEN [agent_locations EXCEPT ![a] = move_agent(a, action.target)]
                      ELSE agent_locations
               /\ store_locations' =
                      IF legal /\ ok
                      THEN update_agent_location(a, move_agent(a, action.target))
                      ELSE store_locations
               /\ store_current_location' =
                      IF legal /\ ok
                      THEN update_agent_location_state(a, move_agent(a, action.target))
                      ELSE store_current_location
               /\ faults' = Outcome(ok)
               /\ call' = [op |-> "execute_action", agent |-> a, arg |-> action,
                           before |-> agent_locations[a],
                           result |-> IF action.action_type = "move"
                                      THEN legal /\ ok ELSE TRUE]
    /\ UNCHANGED <<current_tick, is_running, importance_accumulator,
                   reflections_count, state_current_location, store_states,
                   memories, memories_count, reflections, vector_index,
                   plan_rows, clock, task, hist, inputs>>

\* WorldManager.place_agent(agent_id, place_id), called on its own: false for
\* a place that does not exist; else the agent's location in memory is a new
\* AgentLocation, which is then written to the store (a failed write raises).
CallPlaceAgent ==
    /\ \E a \in AgentIds, place_id \in Places \cup {"nowhere"}, ok \in BOOLEAN :
         LET known == place_id \in Places
         IN /\ ok \/ (known /\ CanFail)
            /\ agent_locations' =
                   IF known THEN [agent_locations EXCEPT ![a] = AgentLocation(place_id)]
                            ELSE agent_locations
            /\ store_locations' =
                   IF known /\ ok THEN update_agent_location(a, AgentLocation(place_id))
                                  ELSE store_locations
            /\ store_current_location' =
                   IF known /\ ok
                   THEN update_agent_location_state(a, AgentLocation(place_id))
                   ELSE store_current_location
            /\ faults' = Outcome(ok)
            /\ call' = [op |-> "place_agent", agent |-> a, arg |-> place_id,
                        before |-> agent_locations[a], raised |-> ~ok,
                        result |-> known /\ ok]
    /\ UNCHANGED <<current_tick, is_running, importance_accumulator,
                   reflections_count, state_current_location, store_states,
                   memories, memories_count, reflections, vector_index,
                   plan_rows, clock, task, hist, inputs>>

\* The behaviour system called for agents at any place, or not placed.
Anywhere == [AgentIds -> Places \cup {None}]

InitWorld == InitWith(AnyInputs, {{}}, 0, Anywhere)

NextWorld ==
    \/ CallChooseAction
    \/ CallExecuteAction

SpecWorld == InitWorld /\ [][NextWorld]_vars

\* The calls that set the place of an agent, in any order: place_agent for
\* any agent, and the moves of choose_action and execute_action.
NextLocations ==
    \/ CallPlaceAgent
    \/ CallChooseAction
    \/ CallExecuteAction

SpecLocations == InitWorld /\ [][NextLocations]_vars

\* ------------------------------------------- calls of the planning engine
PlanningFrame ==
    UNCHANGED <<current_tick, is_running, importance_accumulator,
                reflections_count, agent_locations, store_locations,
                state_current_location, store_current_location,
                store_states, reflections, task, hist, inputs>>

\* The agent the planning engine is called for.
Planners == {Agents[1]}

\* Time passes between two calls: the calls are made at the start, an hour
\* later and MaxElapsed hours later.
CallHours == {StartHour, StartHour + 1, StartHour + MaxElapsed}

Elapse ==
    /\ \E h \in CallHours : h > clock /\ clock' = h
    /\ UNCHANGED <<memories, memories_count, vector_index, plan_rows, call,
                   faults>>
    /\ PlanningFrame

\* form_memory_from_action, called on its own: the memory is rated, stored
\* with the time of the call and embedded.
CallFormMemory ==
    /\ Len(memories) < MaxMemories
    /\ \E a \in Planners, completion \in inputs.scores, ok \in BOOLEAN :
         /\ TextServiceCan(ok)
         /\ LET stored == add_memory(
                    Memory(a, ActionContent("observe"), MemoryType_ACTION,
                           memory_importance(ok, completion), utcnow))
            IN /\ memories' = stored.memories
               /\ memories_count' = stored.memories_count
         /\ vector_index' = vector_index \cup {Len(memories) + 1}
         /\ faults' = TextServiceOutcome(ok)
         /\ call' = [op |-> "form_memory", agent |-> a,
                     arg |-> [ok |-> ok, completion |-> completion],
                     result |-> Len(memories) + 1]
    /\ UNCHANGED <<plan_rows, clock>>
    /\ PlanningFrame

\* generate_daily_plan(agent), called on its own (the plan command with
\* --generate): the plan it returns (empty: None), and the stage that failed.
CallGenerateDailyPlan ==
    /\ Len(plan_rows) < MaxPlans
    /\ \E a \in Planners, answer \in inputs.blocks, o \in GenerateOutcomes :
         LET failure == generate_daily_plan_failure(a, answer, o.read_ok, o.ok)
         IN /\ plan_rows' = generate_daily_plan(a, answer, o.read_ok, o.ok)
            /\ faults' = GenerateFaults(o)
            /\ call' = [op |-> "generate_daily_plan", agent |-> a, arg |-> answer,
                        before |-> plan_rows, failure |-> failure,
                        result |-> IF failure # "none" THEN <<>>
                                   ELSE <<parse_plan_response(a, answer)>>]
    /\ UNCHANGED <<memories, memories_count, vector_index, clock>>
    /\ PlanningFrame

\* should_plan(agent), called on its own.
CallShouldPlan ==
    /\ \E a \in Planners :
         call' = [op |-> "should_plan", agent |-> a, arg |-> None,
                  result |-> should_plan(a)]
    /\ UNCHANGED <<memories, memories_count, vector_index, plan_rows, clock,
                   faults>>
    /\ PlanningFrame

\* The plans _store_daily_plan is called with: the plans _parse_plan_response
\* builds, and the current plans as get_current_daily_plan returns them.
StorablePlans ==
    {parse_plan_response(a, answer) : a \in Planners, answer \in inputs.blocks}
        \cup UNION {Range(get_current_daily_plan(a)) : a \in Planners}

\* _store_daily_plan(plan) followed by get_current_daily_plan(plan.agent_id):
\* whether the store raised, and the plan read back.
CallStoreDailyPlan ==
    /\ \E plan \in StorablePlans :
         /\ Len(plan_rows) < MaxPlans \/ \E i \in 1..Len(plan_rows) : plan_rows[i].id = plan.id
         /\ plan_rows' = IF store_daily_plan_raises(plan) THEN plan_rows
                          ELSE store_daily_plan(plan_rows, plan)
         /\ call' = [op |-> "store_daily_plan", agent |-> plan.agent_id, arg |-> plan,
                     raised |-> store_daily_plan_raises(plan),
                     result |-> current_daily_plan(plan_rows', plan.agent_id)]
    /\ UNCHANGED <<memories, memories_count, vector_index, clock, faults>>
    /\ PlanningFrame

\* The ids of the tasks of the current plans, and an id that no task has.
TaskIds ==
    UNION {{b.tasks[k].id : k \in 1..Len(b.tasks)} :
              b \in UNION {Range(p.hourly_blocks) :
                              p \in UNION {Range(get_current_daily_plan(a)) : a \in Planners}}}
        \cup {<<0, 0>>}

\* update_task_status(agent_id, task_id, status), called on its own.
CallUpdateTaskStatus ==
    /\ \E a \in Planners, task_id \in TaskIds,
          status \in {TaskStatus_IN_PROGRESS, TaskStatus_COMPLETED} :
         LET r == update_task_status(a, task_id, status)
         IN /\ plan_rows' = r.rows
            /\ call' = [op |-> "update_task_status", agent |-> a,
                        arg |-> [task_id |-> task_id, status |-> status],
                        before |-> plan_rows, result |-> r.result]
    /\ UNCHANGED <<memories, memories_count, vector_index, clock, faults>>
    /\ PlanningFrame

\* The planning engine in a time zone west of, at, or east of UTC; no
\* external call fails.
InitPlanning ==
    \E offset \in {-MaxOffset, 0, MaxOffset} :
        InitWith([AnyInputs EXCEPT !.utc_offset = offset, !.faults = 0],
                 {{}}, 0, AtHome)

NextPlanning ==
    \/ Elapse
    \/ CallFormMemory
    \/ CallGenerateDailyPlan
    \/ CallShouldPlan
    \/ CallStoreDailyPlan
    \/ CallUpdateTaskStatus

SpecPlanning == InitPlanning /\ [][NextPlanning]_vars

\* get_current_task(agent_id), called on its own.
CallGetCurrentTask ==
    /\ \E a \in Planners :
         call' = [op |-> "get_current_task", agent |-> a, arg |-> None,
                  result |-> get_current_task(a)]
    /\ UNCHANGED <<memories, memories_count, vector_index, plan_rows, clock,
                   faults>>
    /\ PlanningFrame

\* The generation of plans in UTC, for answers of up to MaxBlocks blocks
\* whose time ranges are the morning, the afternoon, and 09:00-18:00 (540
\* minutes, more than a Task accepts); an external call can fail.
InitPlans ==
    LET texts == {[range |-> <<>>, periods |-> {PeriodNames[1]}],
                  [range |-> <<>>, periods |-> {PeriodNames[2]}],
                  [range |-> <<9, 0, 18, 0>>, periods |-> {}]}
        answers == UNION {[1..n -> texts] : n \in 0..MaxBlocks}
    IN InitWith([AnyInputs EXCEPT !.blocks = answers, !.scores = {<<max_importance>>}],
                {{}}, 0, AtHome)

NextPlans ==
    \/ Elapse
    \/ CallFormMemory
    \/ CallGenerateDailyPlan
    \/ CallGetCurrentTask

SpecPlans == InitPlans /\ [][NextPlans]_vars

\* -------------------------------------------- calls of the memory manager
\* The memory manager called for the first agent, in a database that holds a
\* memory of the second agent; the ratings can also begin with a number in
\* the range, and an external call can fail.
InitMemory ==
    InitWith([AnyInputs EXCEPT !.scores = Scores \cup {<<7, 2>>}],
             {{Agents[2]}}, 1, AtHome)

\* SQLiteStore.get_recent_memories(agent_id, limit) as a query: the lists
\* that SELECT ... WHERE agent_id = ? ORDER BY timestamp DESC LIMIT ? can
\* return (rows of equal timestamp come in any order), each row rebuilt as
\* a Memory from its columns.
recent_memories(a, limit) ==
    LET own == {i \in 1..Len(memories) : memories[i].agent_id = a}
        n == Min(limit, Cardinality(own))
        ordered(f) ==
            /\ \A r, q \in 1..n : r < q =>
                  /\ f[r] # f[q]
                  /\ memories[f[r]].timestamp >= memories[f[q]].timestamp
            /\ \A i \in own \ Range(f) : \A r \in 1..n :
                  memories[i].timestamp <= memories[f[r]].timestamp
        row(i) == [id |-> i,
                   memory |-> Memory(memories[i].agent_id, memories[i].content,
                                     memories[i].memory_type,
                                     memories[i].importance_score,
                                     memories[i].timestamp)]
    IN {[r \in 1..n |-> row(f[r])] : f \in {g \in [1..n -> own] : ordered(g)}}

\* SQLiteStore.get_recent_memories(agent_id, limit), called on its own.
CallGetRecentMemories ==
    /\ \E a \in AgentIds, limit \in 0..MaxLimit :
         \E rows \in recent_memories(a, limit) :
            call' = [op |-> "get_recent_memories", agent |-> a, arg |-> limit,
                     result |-> rows]
    /\ UNCHANGED <<memories, memories_count, vector_index, plan_rows, clock,
                   faults>>
    /\ PlanningFrame

\* retrieve_relevant_memories(agent_id, context, limit), called on its own,
\* for any query: the index orders its entries by their similarity to the
\* query (entries of equal similarity in any order); the embedding of the
\* query and the load of each candidate can fail (no similarity is computed
\* when the embedding failed).
CallRetrieveRelevantMemories ==
    /\ \E a \in Planners, limit \in 0..MaxLimit, ok \in BOOLEAN,
          nearest \in 0..Min(1, Cardinality(vector_index)) :
         \E order \in {f \in [1..Cardinality(vector_index) -> vector_index] :
                          \A i, j \in DOMAIN f : i # j => f[i] # f[j]} :
            LET ranking == [i \in DOMAIN order |->
                               [id |-> order[i],
                                similarity |-> IF i <= nearest THEN 1000 ELSE 500]]
                candidates == search_memories(a, ranking, limit * 2)
            IN \E loads \in [1..Len(candidates) -> BOOLEAN] :
                  LET failed == {i \in DOMAIN loads : ~loads[i]}
                  IN /\ TextServiceCan(ok)
                     /\ ~ok => failed = {} /\ nearest = 0
                     /\ TextServiceOutcome(ok) + Cardinality(failed) <= inputs.faults
                     /\ faults' = TextServiceOutcome(ok) + Cardinality(failed)
                     /\ call' = [op |-> "retrieve_relevant_memories", agent |-> a,
                                 arg |-> [limit |-> limit, ok |-> ok, loads |-> loads,
                                          candidates |-> candidates],
                                 result |-> retrieve_relevant_memories(
                                                a, ranking, limit, ok, loads)]
    /\ UNCHANGED <<memories, memories_count, vector_index, plan_rows, clock>>
    /\ PlanningFrame

NextMemory ==
    \/ Elapse
    \/ CallFormMemory
    \/ CallRetrieveRelevantMemories
    \/ CallGetRecentMemories

SpecMemory == InitMemory /\ [][NextMemory]_vars

\* ------------------------------------------------- calls of pure functions
\* A function that reads and writes no state is called: only the record of
\* the call changes.
FunctionFrame ==
    UNCHANGED <<current_tick, is_running, importance_accumulator,
                reflections_count, agent_locations, store_locations,
                state_current_location, store_current_location,
                store_states, memories, memories_count, reflections,
                vector_index, plan_rows, clock, task, hist, faults, inputs>>

\* _parse_time_range(time_range), called with a text that contains a range
\* H:MM-H:MM (hours up to MaxHour, minutes up to MaxMinute) and no period
\* name, or no range and any of the period names.
CallParseTimeRange ==
    /\ \E text \in
            {[range |-> <<sh, sm, eh, em>>, periods |-> {}] :
                sh \in {0, 9, 17, MaxHour - 1, MaxHour}, sm \in {0, 30, MaxMinute},
                eh \in {0, 9, 17, MaxHour - 1, MaxHour}, em \in {0, 30, MaxMinute}}
            \cup {[range |-> <<>>, periods |-> ps] : ps \in SUBSET Range(PeriodNames)} :
         call' = [op |-> "parse_time_range", arg |-> text,
                  result |-> parse_time_range(text)]
    /\ FunctionFrame

\* ImportanceScorer._get_heuristic_score(memory), in hundredths: the base
\* score, the adjustment for the memory type (compared with the enum
\* members), for the first keyword lists, the emotion words and the marks
\* found in the content, clamped to 1..10.  content says which of these the
\* text of the memory contains.
get_heuristic_score(memory_type, content) ==
    LET score == 300
            + (CASE memory_type = MemoryType_REFLECTION -> 200
                 [] memory_type = "MemoryType.DIALOGUE" -> 100
                 [] memory_type = MemoryType_ACTION -> 50
                 [] OTHER -> 0)
            + (IF content.high THEN 200 ELSE 0)
            + (IF content.moderate THEN 100 ELSE 0)
            + (IF content.emotion THEN 50 ELSE 0)
            + (IF content.question THEN 30 ELSE 0)
            + (IF content.exclamation THEN 50 ELSE 0)
    IN Min(1000, IF score < 100 THEN 100 ELSE score)

\* ImportanceScorer._get_llm_score: the first number of the completion (its
\* numbers in hundredths, in order) when it is within 1..10, as a sequence
\* of at most one score; empty when the call failed (ok is false), the
\* completion has no number or the number is out of range: OllamaError.
get_llm_score(ok, completion) ==
    IF ok /\ completion # <<>> /\ completion[1] >= 100 /\ completion[1] <= 1000
    THEN <<completion[1]>>
    ELSE <<>>

\* score_importance adding the two scores instead of weighting them, and
\* answering zero when the Text Service gave no score.
score_importance_sum(memory_type, content, ok, completion) ==
    LET base_score == get_heuristic_score(memory_type, content)
        llm_score == get_llm_score(ok, completion)
    IN IF llm_score = <<>> THEN 0 ELSE 10 * (base_score + llm_score[1])

\* ImportanceScorer.score_importance(memory), in thousandths: 0.3 times the
\* heuristic score plus 0.7 times the score of the Text Service, clamped to
\* 0..10; the heuristic score when _get_llm_score raised.
score_importance(memory_type, content, ok, completion) ==
    LET base_score == get_heuristic_score(memory_type, content)
        llm_score == get_llm_score(ok, completion)
        final_score == 3 * base_score + 7 * llm_score[1]
    IN IF llm_score = <<>> THEN 10 * base_score
       ELSE Min(10000, IF final_score < 0 THEN 0 ELSE final_score)

\* score_importance(memory) for a memory of any type (the value a validated
\* field holds, or the enum member an omitted field defaults to), any
\* content, and any completion of the Text Service: no number, or numbers
\* below, within and above 1..10 (a failed call has no completion).
CallScoreImportance ==
    /\ \E memory_type \in {"action", "reflection", MemoryType_PERCEPTION},
          content \in [high : BOOLEAN, moderate : BOOLEAN, emotion : BOOLEAN,
                       question : BOOLEAN, exclamation : BOOLEAN],
          ok \in BOOLEAN,
          completion \in {<<>>, <<50>>, <<100>>, <<1000>>, <<1100, 500>>} :
         /\ ~ok => completion = <<>>
         /\ call' = [op |-> "score_importance",
                     arg |-> [memory_type |-> memory_type, content |-> content,
                              ok |-> ok, completion |-> completion],
                     heuristic |-> get_heuristic_score(memory_type, content),
                     result |-> score_importance(memory_type, content, ok,
                                                 completion)]
    /\ FunctionFrame

\* _make_request retrying after every failed attempt, a 4xx response
\* included.
RECURSIVE make_request_always(_, _)
make_request_always(outcomes, retries) ==
    IF outcomes[retries + 1] = "ok"
    THEN [attempts |-> retries + 1, waits |-> <<>>, outcome |-> "response"]
    ELSE IF retries < max_retries
    THEN LET rest == make_request_always(outcomes, retries + 1)
         IN [rest EXCEPT !.waits = <<2 ^ retries>> \o @]
    ELSE [attempts |-> retries + 1, waits |-> <<>>, outcome |-> "OllamaError"]

\* OllamaClient._make_request(endpoint, payload, retries): outcomes[n] is what
\* attempt n of the request meets: "ok" (a response that is read), "5xx" or
\* "4xx" (raise_for_status raises HTTPStatusError), "connection"
\* (RequestError), "unreadable" (any other exception, as a body that is not
\* JSON).  The result is the number of attempts made, the seconds slept
\* before each retry and how the request ended.
RECURSIVE make_request(_, _)
make_request(outcomes, retries) ==
    LET met == outcomes[retries + 1]
        retry == LET rest == make_request(outcomes, retries + 1)
                 IN [rest EXCEPT !.waits = <<2 ^ retries>> \o @]
        raise == [attempts |-> retries + 1, waits |-> <<>>, outcome |-> "OllamaError"]
    IN CASE met = "ok" ->
              [attempts |-> retries + 1, waits |-> <<>>, outcome |-> "response"]
         [] met \in {"5xx", "connection"} ->
              IF retries < max_retries THEN retry ELSE raise
         [] OTHER -> raise

\* _make_request(endpoint, payload), called with retries = 0, for any
\* outcomes of its attempts; the call records the outcomes of the attempts
\* that were made.
CallMakeRequest ==
    /\ \E outcomes \in [1..(max_retries + 1) ->
                           {"ok", "5xx", "4xx", "connection", "unreadable"}] :
         LET result == make_request(outcomes, 0)
         IN call' = [op |-> "make_request",
                     arg |-> SubSeq(outcomes, 1, result.attempts),
                     result |-> result]
    /\ FunctionFrame

NextFunctions ==
    \/ CallParseTimeRange
    \/ CallScoreImportance
    \/ CallMakeRequest

SpecFunctions == InitSteady /\ [][NextFunctions]_vars

\* --------------------------------------- the candidates of a reflection
\* A day passes between two calls (the simulation is left and resumed).
ElapseDay ==
    /\ clock + 24 <= StartHour + 24 * MaxDays
    /\ clock' = clock + 24
    /\ UNCHANGED <<memories, memories_count, vector_index, plan_rows, call,
                   faults>>
    /\ PlanningFrame

\* _get_reflection_memories(agent), called on its own: the candidates, the
\* time of the call and the number of memories in the store at that time.
CallGetReflectionMemories ==
    /\ \E a \in AgentIds :
         call' = [op |-> "get_reflection_memories", agent |-> a,
                  result |-> get_reflection_memories(a),
                  at |-> utcnow, count |-> Len(memories)]
    /\ UNCHANGED <<memories, memories_count, vector_index, plan_rows, clock,
                   faults>>
    /\ PlanningFrame

NextCandidates ==
    \/ ElapseDay
    \/ CallFormMemory
    \/ CallGetReflectionMemories

SpecCandidates == InitMemory /\ [][NextCandidates]_vars

\* ------------------------------------------------------------------ claims
Has(t, label) == \E i \in 1..Len(hist[t].trace) : hist[t].trace[i] = label

\* A task is inside the pipeline of an agent (_process_agent_tick).
InPipeline(t) == task[t].pc \notin {"none", "idle", "created", "sleep", "summary"}

\* trigger_reflection has just returned to _process_agent_tick.
Returned(t) == task[t].pc = "plan_check" /\ Has(t, "returned")

PipelineOrder ==
    <<"decide", "execute", "memory", "accumulate", "should_reflect", "trigger",
      "reset", "returned", "should_plan">>

Rank(label) == CHOOSE i \in 1..Len(PipelineOrder) : PipelineOrder[i] = label

\* The step a step of the pipeline cannot happen without.
Requires(label) ==
    CASE label = "decide" -> {}
      [] label = "execute" -> {"decide"}
      [] label = "memory" -> {"execute"}
      [] label = "accumulate" -> {"memory"}
      [] label = "should_reflect" -> {"accumulate"}
      [] label = "trigger" -> {"should_reflect"}
      [] label = "reset" -> {"trigger"}
      [] label = "returned" -> {"trigger"}
      [] label = "should_plan" -> {"execute"}

\* C1: within one agent's pipeline the steps happen strictly in the order
\* decision, action execution, memory formation, accumulator update,
\* reflection check, planning check, none of them without the one it follows;
\* a triggered reflection has returned before should_plan is evaluated, and
\* one that returned reflections has reset the accumulator before it returned.
C1_PipelineOrder ==
    \A t \in Tasks :
        LET tr == hist[t].trace
        IN /\ \A i, j \in 1..Len(tr) : i < j => Rank(tr[i]) < Rank(tr[j])
           /\ \A i \in 1..Len(tr) :
                \A need \in Requires(tr[i]) : \E j \in 1..(i - 1) : tr[j] = need
           /\ Has(t, "should_plan") /\ Has(t, "trigger") => Has(t, "returned")
           /\ hist[t].returned > 0 => Has(t, "reset")

\* C1: should_plan has been evaluated after a reflection that stored its
\* insights and reset the accumulator.
C1_Witness ==
    \E t \in Tasks :
        /\ task[t].pc = "plan_generate"
        /\ Has(t, "should_plan")
        /\ Has(t, "reset")
        /\ hist[t].returned > 0

\* C3: when a tick completes, every agent has been processed exactly once and
\* the tick counter is one above its value when the tick began, whether or not
\* a step of some agent's pipeline raised; no agent is processed twice.
C3_TickCompletes ==
    \A t \in Tasks :
        /\ \A a \in AgentIds : hist[t].visits[a] <= 1
        /\ task[t].pc = "summary" =>
              /\ \A a \in AgentIds : hist[t].visits[a] = 1
              /\ current_tick = task[t].tick

\* C3: a tick has completed in which the pipeline of the first agent raised.
C3_Witness ==
    \E t \in Tasks :
        /\ task[t].pc = "summary"
        /\ Agents[1] \in hist[t].raised
        /\ hist[t].visits[Agents[2]] = 1

\* C2: in every interleaving of the background tick loop, step_simulation
\* and pause_simulation, at most one agent's pipeline is in progress.
C2_OnePipeline == Cardinality({t \in Tasks : InPipeline(t)}) <= 1

\* C4: whenever should_reflect is evaluated it is true exactly when the
\* accumulator has reached the threshold (the equal case included), and when
\* trigger_reflection has just returned a non-empty list the agent's
\* accumulator is exactly 0.
C4_ShouldReflect ==
    \A t \in Tasks :
        /\ hist[t].check_acc >= 0 =>
              (hist[t].check <=> hist[t].check_acc >= reflection_threshold)
        /\ Returned(t) /\ hist[t].returned > 0 =>
              importance_accumulator[AgentOf(t)] = 0

\* C4: should_reflect was true with the accumulator exactly at the threshold,
\* and the reflection it triggered has returned its reflections.
C4_Witness ==
    \E t \in Tasks :
        /\ Returned(t)
        /\ hist[t].returned > 0
        /\ hist[t].check
        /\ hist[t].check_acc = reflection_threshold

\* C5: once form_memory_from_action has returned a memory, the accumulator
\* has been updated exactly once for it, by exactly its importance score, and
\* should_reflect is evaluated on the updated value, also when that value
\* reaches or exceeds the threshold.
C5_AccumulatorUpdate ==
    \A t \in Tasks :
        /\ hist[t].updates <= 1
        /\ Has(t, "memory") /\ task[t].pc # "embed" =>
              /\ hist[t].updates = 1
              /\ hist[t].acc_after =
                    hist[t].acc_before + memories[hist[t].formed].importance_score
        /\ Has(t, "should_reflect") =>
              /\ hist[t].updates = 1
              /\ hist[t].check_acc = hist[t].acc_after

\* C5: a memory's importance took the accumulator from below the threshold to
\* the threshold or above, and should_reflect was evaluated on the sum.
C5_Witness ==
    \E t \in Tasks :
        /\ Has(t, "should_reflect")
        /\ hist[t].acc_before < reflection_threshold
        /\ hist[t].acc_after >= reflection_threshold
        /\ hist[t].check_acc = hist[t].acc_after

\* C6: the accumulator is reset only after every reflection of the trigger
\* and its companion memory are in the store; while trigger_reflection has not
\* reset it (also when it stops on a failure and returns), the accumulator
\* keeps its pre-trigger value in memory and in the store, so that
\* should_reflect still holds for the agent.
C6_ResetAfterPersist ==
    \A t \in Tasks :
        LET a == AgentOf(t)
        IN /\ Has(t, "reset") =>
                 /\ task[t].insights > 0
                 /\ hist[t].persisted = task[t].insights
                 /\ hist[t].companions = task[t].insights
           /\ Has(t, "trigger") /\ ~Has(t, "reset") =>
                 /\ importance_accumulator[a] = hist[t].trig_acc
                 /\ store_states[a] = hist[t].trig_store
                 /\ should_reflect(a)

\* C6: trigger_reflection has returned after a failure that followed the
\* first stored reflection, without a reset, and should_reflect still holds.
C6_Witness ==
    \E t \in Tasks :
        /\ Returned(t)
        /\ hist[t].persisted > 0
        /\ ~Has(t, "reset")
        /\ should_reflect(AgentOf(t))

\* C7: when trigger_reflection has returned, either all reflections of the
\* trigger and their companion memories are stored and the accumulator is 0
\* in memory and in the store, or none is stored and the accumulator is
\* unchanged; an empty list means that no reflection was stored.
C7_AllOrNothing ==
    \A t \in Tasks :
        Returned(t) =>
            LET a == AgentOf(t)
                all == /\ hist[t].returned > 0
                       /\ hist[t].persisted = hist[t].returned
                       /\ hist[t].companions = hist[t].returned
                       /\ importance_accumulator[a] = 0
                       /\ store_states[a] = 0
                none == /\ hist[t].returned = 0
                        /\ hist[t].persisted = 0
                        /\ hist[t].companions = 0
                        /\ importance_accumulator[a] = hist[t].trig_acc
            IN all \/ none

\* C8: the candidate memories of trigger_reflection never include a memory of
\* type REFLECTION.
C8_NoReflectionCandidates ==
    \A t \in Tasks :
        \A i \in task[t].cands :
            memories[i].memory_type # EnumValue(MemoryType_REFLECTION)

\* The memory is the companion memory of the reflection.
IsCompanion(m, r) ==
    /\ m.agent_id = r.agent_id
    /\ m.memory_type = EnumValue(MemoryType_REFLECTION)
    /\ m.content = CompanionContent(r.content)
    /\ m.importance_score = r.importance_score
    /\ m.timestamp = r.timestamp

\* C9: outside _store_reflection_as_memory, every stored reflection has
\* exactly one stored companion memory: of type REFLECTION, of the same agent,
\* with the content "I reflected and realized: {insight}" and the
\* reflection's importance.
C9_CompanionMemory ==
    (\A t \in Tasks : task[t].pc # "r_add_memory") =>
        \A r \in 1..Len(reflections) :
            Cardinality({i \in 1..Len(memories) :
                            IsCompanion(memories[i], reflections[r])}) = 1

\* C10: when the embedding of a stored memory failed, form_memory_from_action
\* has returned the memory all the same: the memory is in the structured
\* store (and not in the semantic index), and the accumulator has been
\* updated for it, once, by its importance.
C10_EmbeddingFailure ==
    \A t \in Tasks :
        hist[t].emb_failed =>
            /\ hist[t].formed \in 1..Len(memories)
            /\ memories[hist[t].formed].agent_id = AgentOf(t)
            /\ hist[t].formed \notin vector_index
            /\ Has(t, "accumulate")
            /\ hist[t].updates = 1
            /\ hist[t].acc_after =
                  hist[t].acc_before + memories[hist[t].formed].importance_score

\* C10: the embedding of a memory failed and the tick went on to
\* should_reflect with the accumulator updated for that memory.
C10_Witness ==
    \E t \in Tasks :
        /\ hist[t].emb_failed
        /\ Has(t, "should_reflect")
        /\ hist[t].formed \notin vector_index

\* C11: when the structured-store insert of an agent's memory has failed, the
\* failure was raised out of form_memory_from_action: no memory was formed and
\* the semantic index holds no entry without a row, the accumulator of the
\* agent is what it was, neither the accumulator update nor should_reflect nor
\* trigger_reflection happens for the agent in that tick, and the tick still
\* processes every agent.
C11_InsertFailure ==
    \A t \in Tasks :
        /\ InPipeline(t) /\ AgentOf(t) \in hist[t].add_failed =>
              /\ AgentOf(t) \in hist[t].raised
              /\ hist[t].formed = 0
              /\ vector_index \subseteq 1..Len(memories)
              /\ importance_accumulator[AgentOf(t)] = hist[t].acc_before
              /\ hist[t].updates = 0
              /\ ~Has(t, "memory") /\ ~Has(t, "accumulate")
              /\ ~Has(t, "should_reflect") /\ ~Has(t, "trigger")
        /\ task[t].pc = "summary" /\ hist[t].add_failed # {} =>
              \A a \in AgentIds : hist[t].visits[a] = 1

\* C11: the insert of the first agent's memory failed while its accumulator
\* was at 20, and the tick has completed with the second agent's memory formed.
C11_Witness ==
    \E t \in Tasks :
        /\ task[t].pc = "summary"
        /\ Agents[1] \in hist[t].add_failed
        /\ importance_accumulator[Agents[1]] = 2 * max_importance
        /\ \E i \in 1..Len(memories) :
              memories[i].agent_id = Agents[2] /\ i > 4

\* C12: when every call of the Text Service fails (and nothing else does), no
\* step of a pipeline raises and the tick completes for all agents: each
\* agent's action is the fallback OBSERVE (nobody moves), one ACTION memory
\* of importance exactly 3 is stored for it without an embedding, its
\* accumulator grows by 3, no reflection is persisted and no plan is stored.
C12_TextServiceDown ==
    inputs.text_service = "down" /\ faults = 0 =>
        /\ reflections = <<>>
        /\ plan_rows = <<>>
        /\ \A a \in AgentIds : agent_locations[a] = AgentLocation(home_location(a))
        /\ \A t \in Tasks :
              /\ hist[t].raised = {}
              /\ task[t].action \in {"none", "observe"}
              /\ task[t].pc \in {"score", "add_memory"} => task[t].action = "observe"
              /\ hist[t].formed # 0 =>
                    /\ memories[hist[t].formed].agent_id = AgentOf(t)
                    /\ memories[hist[t].formed].memory_type = EnumValue(MemoryType_ACTION)
                    /\ memories[hist[t].formed].importance_score = default_importance
                    /\ hist[t].formed \notin vector_index
              /\ Has(t, "accumulate") =>
                    /\ hist[t].acc_after = hist[t].acc_before + default_importance
                    /\ importance_accumulator[AgentOf(t)] = hist[t].acc_after
              /\ task[t].pc \in {"plan_check", "plan_generate"} =>
                    hist[t].formed # 0 /\ Has(t, "accumulate")
              /\ task[t].pc = "summary" =>
                    \A a \in AgentIds :
                        /\ hist[t].visits[a] = 1
                        /\ Cardinality({i \in 1..Len(memories) :
                               /\ memories[i].agent_id = a
                               /\ memories[i].importance_score = default_importance})
                             = current_tick

\* C12: with the Text Service down, the second agent's memory took its
\* accumulator from 30 to 33, the reflection that was triggered returned
\* nothing, and generate_daily_plan is awaited.
C12_Witness ==
    \E t \in Tasks :
        /\ inputs.text_service = "down"
        /\ faults = 0
        /\ task[t].pc = "plan_generate"
        /\ AgentOf(t) = Agents[2]
        /\ Has(t, "trigger")
        /\ hist[t].returned = 0
        /\ importance_accumulator[Agents[2]] = reflection_threshold + default_importance

\* The conditions under which a move is legal: the agent is placed, the
\* target exists and the target is connected to the agent's place.
LegalMove(before, target) ==
    /\ before.place_id # None
    /\ target \in Places
    /\ target \in Range(connected_places(before.place_id))

\* C13: a MOVE changes the agent's place to the target exactly when the agent
\* is placed, the target exists and the target is connected to the agent's
\* place; otherwise execute_action returns a failure and the agent's current
\* and previous place are unchanged.  Hence every change of an agent's place
\* is along a connection.
C13_MoveLegality ==
    /\ [](call.op = "execute_action" =>
            LET a == call.agent
                target == call.arg.target
            IN IF call.arg.action_type # "move" THEN agent_locations[a] = call.before
               ELSE IF LegalMove(call.before, target)
               THEN /\ agent_locations[a].place_id = target
                    /\ agent_locations[a].previous_place_id = call.before.place_id
               ELSE /\ agent_locations[a] = call.before
                    /\ call.result = FALSE)
    /\ [][\A a \in AgentIds :
             /\ agent_locations[a].place_id # None
             /\ agent_locations'[a].place_id # agent_locations[a].place_id
             => agent_locations'[a].place_id
                   \in Range(connected_places(agent_locations[a].place_id))]_vars

\* C13: an agent that had moved from the square to home was refused a move
\* to the library, which exists and is not connected to home.
C13_Witness ==
    /\ call.op = "execute_action"
    /\ call.arg.action_type = "move"
    /\ call.arg.target = "library"
    /\ call.before.place_id = "home"
    /\ call.before.previous_place_id = "square"
    /\ call.result = FALSE
    /\ agent_locations[call.agent] = call.before

\* C14: when the decision text is "MOVE to D" and D is the name of a place
\* connected to the agent's place, the agent is at D once the action is
\* executed (and at no other place), one ACTION memory is formed for it, and
\* the accumulator grows by that memory's score.
C14_MoveToNamedPlace ==
    \A t \in Tasks :
        hist[t].wanted # None /\ Has(t, "execute") =>
            /\ agent_locations[AgentOf(t)].place_id = hist[t].wanted
            /\ hist[t].formed # 0 =>
                  memories[hist[t].formed].memory_type = EnumValue(MemoryType_ACTION)
            /\ Has(t, "accumulate") =>
                  hist[t].acc_after =
                      hist[t].acc_before + memories[hist[t].formed].importance_score

\* The destination text names a place that can be reached from the place:
\* it is, or is part of, the name or the id of a connected place.
NamesReachable(dest, place) ==
    \E p \in Range(connected_places(place)) :
        IsSubstring(dest, place_name(p)) \/ IsSubstring(dest, Chars(p))

\* C15: choose_action_with_reasoning returns one action of type MOVE, WAIT,
\* OBSERVE or INTERACT for the requesting agent, and the action is OBSERVE
\* whenever the Text Service fails, the response has no ACTION line, the
\* keyword is none of the four, or a MOVE names no destination that can be
\* reached from the agent's place.
C15_ChooseAction ==
    call.op = "choose_action" =>
        /\ call.result.action_type \in {"move", "wait", "observe", "interact"}
        /\ call.result.agent_id = call.agent
        /\ \/ call.arg = TextServiceError
           \/ call.arg.kw \in {"NONE", "OTHER"}
           \/ /\ call.arg.kw = "MOVE"
              /\ ~NamesReachable(call.arg.dest, call.before.place_id)
           => call.result.action_type = "observe"

\* The number of memories of importance 7 or more formed for the agent after
\* the plan was last updated.
HighSince(a, plan) ==
    Cardinality({i \in 1..Len(memories) :
                    /\ memories[i].agent_id = a
                    /\ memories[i].importance_score >= high_importance
                    /\ memories[i].timestamp > plan.updated_at})

\* C16: should_plan is true when the agent has no plan for today; it is false
\* right after a fresh plan was stored (no time elapsed, fewer than 3
\* memories of high importance since), whatever the local time zone; and it
\* is true once more than 6 hours have passed since the plan's last update.
C16_ShouldPlanAge ==
    call.op = "should_plan" =>
        LET current == get_current_daily_plan(call.agent)
        IN /\ current = <<>> => call.result
           /\ current # <<>> =>
                 /\ /\ utcnow = current[1].updated_at
                    /\ HighSince(call.agent, current[1]) < high_count
                    => ~call.result
                 /\ utcnow - current[1].updated_at > plan_max_age => call.result

\* C17: with a plan for today that was last updated at most 6 hours ago,
\* should_plan is true exactly when at least 3 memories of importance 7 or
\* more have been formed for the agent since that update.
C17_ShouldPlanMemories ==
    call.op = "should_plan" =>
        LET current == get_current_daily_plan(call.agent)
        IN /\ current # <<>>
           /\ utcnow - current[1].updated_at <= plan_max_age
           => (call.result <=> HighSince(call.agent, current[1]) >= high_count)

\* C18: the store holds at most one daily plan for an agent and a date.
C18_OnePlanPerDay ==
    \A i, j \in 1..Len(plan_rows) :
        /\ plan_rows[i].agent_id = plan_rows[j].agent_id
        /\ plan_rows[i].date_for = plan_rows[j].date_for
        /\ plan_rows[i].plan_type = "daily"
        /\ plan_rows[j].plan_type = "daily"
        => i = j

\* The plan read has the goals of the plan written, as many blocks in the
\* same order, and in each block the same activity, location, start time,
\* duration, status and tasks.
SamePlan(read, written) ==
    /\ read.goals = written.goals
    /\ Len(read.hourly_blocks) = Len(written.hourly_blocks)
    /\ \A i \in 1..Len(written.hourly_blocks) :
          LET r == read.hourly_blocks[i]
              w == written.hourly_blocks[i]
          IN /\ r.activity = w.activity
             /\ r.location = w.location
             /\ r.start_time = w.start_time
             /\ r.duration_minutes = w.duration_minutes
             /\ r.status = w.status
             /\ r.tasks = w.tasks

\* C19: a plan dated today that is stored with _store_daily_plan is read
\* back by get_current_daily_plan with identical goals and blocks.
C19_PlanRoundTrip ==
    call.op = "store_daily_plan" /\ call.arg.date = today =>
        /\ ~call.raised
        /\ Len(call.result) = 1
        /\ SamePlan(call.result[1], call.arg)

\* The plan has a task with the id.
HasTask(plan, task_id) ==
    \E i \in 1..Len(plan.hourly_blocks) :
        \E k \in 1..Len(plan.hourly_blocks[i].tasks) :
            plan.hourly_blocks[i].tasks[k].id = task_id

\* The plan is the old plan with the status of the task replaced.
OnlyTaskChanged(new, old, task_id, status) ==
    /\ new.goals = old.goals
    /\ new.status = old.status
    /\ Len(new.hourly_blocks) = Len(old.hourly_blocks)
    /\ \A i \in 1..Len(old.hourly_blocks) :
          LET n == new.hourly_blocks[i]
              o == old.hourly_blocks[i]
          IN /\ [n EXCEPT !.tasks = <<>>] = [o EXCEPT !.tasks = <<>>]
             /\ Len(n.tasks) = Len(o.tasks)
             /\ \A k \in 1..Len(o.tasks) :
                   /\ n.tasks[k].id = o.tasks[k].id
                   /\ n.tasks[k].status =
                         IF o.tasks[k].id = task_id THEN EnumValue(status)
                         ELSE o.tasks[k].status

\* C20: update_task_status returns true exactly when the agent's current
\* plan has a task with the id; then that task's status is the new status in
\* the stored plan and nothing else of the plan has changed; when it returns
\* false the stored plans are unchanged.
C20_UpdateTaskStatus ==
    call.op = "update_task_status" =>
        LET before == current_daily_plan(call.before, call.agent)
            after == get_current_daily_plan(call.agent)
            has == before # <<>> /\ HasTask(before[1], call.arg.task_id)
        IN /\ call.result <=> has
           /\ call.result =>
                 /\ after # <<>>
                 /\ OnlyTaskChanged(after[1], before[1], call.arg.task_id,
                                    call.arg.status)
           /\ ~call.result => plan_rows = call.before

\* The task the agent should be working on: in the first block of the current
\* plan that is pending or in progress (whether the status is held as the enum
\* member or as its value) and whose window [start, end) contains the time of
\* day, a window that crosses midnight included, the first pending or
\* in-progress task, or a WAIT task made from the block; empty without one.
ClaimedCurrentTask(a) ==
    LET current == get_current_daily_plan(a)
        blocks == current[1].hourly_blocks
        t == (now % 24) * 60
        pending(status) == EnumValue(status) \in {"pending", "in_progress"}
        within(b) == \E d \in {0, 24 * 60} :
                        /\ b.start_time <= t + d
                        /\ t + d < b.start_time + b.duration_minutes
        active == {i \in 1..Len(blocks) : pending(blocks[i].status) /\ within(blocks[i])}
        block == blocks[CHOOSE i \in active : \A j \in active : i <= j]
        open == {k \in 1..Len(block.tasks) : pending(block.tasks[k].status)}
    IN IF current = <<>> \/ active = {} THEN <<>>
       ELSE IF open # {} THEN <<block.tasks[CHOOSE k \in open : \A j \in open : k <= j]>>
       ELSE <<Task(<<NewPlanId, 0>>, block.activity, "wait",
                   block.duration_minutes, block.location)>>

\* C21: get_current_task returns null when the agent has no plan or no block
\* is active; otherwise it returns the first pending or in-progress task of
\* the first pending or in-progress block whose half-open window [start, end)
\* contains the current time, or a WAIT task made from that block when it has
\* none; this holds for plans read back from the store.
C21_CurrentTask ==
    call.op = "get_current_task" => call.result = ClaimedCurrentTask(call.agent)

\* C22: generate_daily_plan always returns: when a stage fails (building the
\* context, the Text Service, the validation of the plan model, the store) it
\* returns null, and whenever it returns null the plans of the store are
\* exactly what they were before the call, so that get_current_daily_plan
\* returns the same as before.
C22_GenerateFailure ==
    call.op = "generate_daily_plan" =>
        /\ call.failure # "none" => call.result = <<>>
        /\ call.result = <<>> =>
              /\ plan_rows = call.before
              /\ get_current_daily_plan(call.agent)
                    = current_daily_plan(call.before, call.agent)

\* C22: generate_daily_plan has returned null after an external call failed,
\* for an agent that has a plan for today.
C22_Witness ==
    /\ call.op = "generate_daily_plan"
    /\ call.failure = "external"
    /\ call.result = <<>>
    /\ current_daily_plan(call.before, call.agent) # <<>>

\* The blocks of an answer that the plan model accepts, in their order.
UsableBlocks(answer) ==
    SelectSeq(block_data(answer),
              LAMBDA d : ~Task_raises(d.duration_minutes)
                            /\ d.duration_minutes >= 5 /\ d.duration_minutes <= 720)

\* C23: when the answer of the Text Service has between one and three
\* well-formed period blocks and no external call fails, generate_daily_plan
\* returns a plan, whatever memories the agent has, and the plan is the
\* current plan of the store; it has one hourly block with one task for each
\* block of the answer that the plan model accepts, the others being dropped.
C23_PartialPlan ==
    /\ call.op = "generate_daily_plan"
    /\ Len(call.arg) >= 1
    /\ Len(call.arg) <= 3
    /\ call.failure # "external"
    => /\ call.result # <<>>
       /\ get_current_daily_plan(call.agent) # <<>>
       /\ get_current_daily_plan(call.agent)[1].id = call.result[1].id
       /\ LET blocks == call.result[1].hourly_blocks
              usable == UsableBlocks(call.arg)
          IN /\ Len(blocks) = Len(usable)
             /\ \A i \in 1..Len(blocks) :
                   /\ blocks[i].start_time = usable[i].start_time
                   /\ blocks[i].duration_minutes = usable[i].duration_minutes
                   /\ Len(blocks[i].tasks) = 1

\* C24: _parse_time_range returns, for a text with a range H:MM-H:MM, the
\* start H:MM and the minutes from the start to the end, 24 hours more when
\* the end is earlier than the start; without a range, for a text with a
\* period name, the default of a period it names (morning 09:00 and 180,
\* afternoon 13:00 and 240, evening 18:00 and 180); and for every other text,
\* a range with an hour or a minute out of range included, 13:00 and 240.
C24_ParseTimeRange ==
    call.op = "parse_time_range" =>
        LET r == call.arg.range
            valid == r # <<>> /\ r[1] <= 23 /\ r[3] <= 23 /\ r[2] <= 59 /\ r[4] <= 59
            start == r[1] * 60 + r[2]
            end == r[3] * 60 + r[4]
            afternoon == [start_time |-> 13 * 60, duration_minutes |-> 240]
        IN IF valid
           THEN call.result =
                    [start_time |-> start,
                     duration_minutes |-> IF end < start THEN end - start + 24 * 60
                                                         ELSE end - start]
           ELSE IF r = <<>> /\ call.arg.periods # {}
                THEN \E period \in call.arg.periods :
                        call.result =
                            CASE period = "morning" ->
                                    [start_time |-> 9 * 60, duration_minutes |-> 180]
                              [] period = "afternoon" -> afternoon
                              [] period = "evening" ->
                                    [start_time |-> 18 * 60, duration_minutes |-> 180]
                ELSE call.result = afternoon

\* C25: the importance of a formed memory is in 0..10: it is the first number
\* of the completion clamped to 0..10, and exactly 3 when the completion has
\* no number or the call of the Text Service failed; the score of a stored
\* memory never changes afterwards.
C25_MemoryImportance ==
    /\ [](call.op = "form_memory" =>
            LET c == call.arg.completion
                numbers == {i \in 1..Len(c) : c[i] >= 0}
                first == c[CHOOSE i \in numbers : \A j \in numbers : i <= j]
                score == memories[call.result].importance_score
            IN /\ score >= 0 /\ score <= 10
               /\ ~call.arg.ok \/ numbers = {} => score = 3
               /\ call.arg.ok /\ numbers # {} =>
                     score = IF first > 10 THEN 10 ELSE first)
    /\ [][\A i \in 1..Len(memories) :
             /\ i <= Len(memories')
             /\ memories'[i].importance_score = memories[i].importance_score]_vars

\* C25: a memory was formed with the first number of the completion above 10,
\* after an earlier one was formed while the call of the Text Service failed.
C25_Witness ==
    /\ call.op = "form_memory"
    /\ call.arg.ok
    /\ call.arg.completion = <<-1, 12>>
    /\ memories[call.result].importance_score = 10
    /\ faults = 1
    /\ \E i \in 1..(call.result - 1) : memories[i].importance_score = 3

C27_RetrievalFailure ==
    call.op = "retrieve_relevant_memories" =>
        LET results == call.result
            candidates == call.arg.candidates
            loaded == {candidates[i].id : i \in {k \in 1..Len(candidates) :
                                                   call.arg.loads[k]}}
            returned == {results[r].id : r \in 1..Len(results)}
        IN IF ~call.arg.ok THEN results = <<>>
           ELSE /\ returned \subseteq loaded
                /\ Len(results) = Min(call.arg.limit, Cardinality(loaded))

\* C27: a candidate failed to load and another candidate was returned.
C27_Witness ==
    /\ call.op = "retrieve_relevant_memories"
    /\ call.arg.ok
    /\ \E i \in 1..Len(call.arg.candidates) : ~call.arg.loads[i]
    /\ Len(call.result) = 1

\* C28: after any sequence of place_agent and move_agent calls, each agent is
\* listed at the same places by the store's get_agents_at_location and by
\* the world state's: at one place, the one most recently set for it, when it
\* was placed, and at no place when it was never placed.
C28_Locations ==
    \A a \in AgentIds :
        LET listed == {p \in Places : a \in get_agents_at_location(p)}
            stored == {p \in Places : a \in store_get_agents_at_location(p)}
        IN /\ stored = listed
           /\ Cardinality(listed) <= 1
           /\ (call.op = "place_agent" /\ call.agent = a /\ call.arg \in Places)
                 => listed = {call.arg}

\* C29: get_recent_memories returns only memories of its agent, at most
\* `limit` of them, newest first, each with the content, memory type and
\* importance score it was added with, and every memory of the agent when
\* the limit allows; the memories_count of an agent is the number of
\* memories added for it.
C29_RecentMemories ==
    /\ \A a \in AgentIds :
          memories_count[a] =
              Cardinality({i \in 1..Len(memories) : memories[i].agent_id = a})
    /\ call.op = "get_recent_memories" =>
          LET rows == call.result
              own == {i \in 1..Len(memories) : memories[i].agent_id = call.agent}
          IN /\ Len(rows) <= call.arg
             /\ \A r \in 1..Len(rows) :
                   /\ rows[r].id \in own
                   /\ rows[r].memory.content = memories[rows[r].id].content
                   /\ rows[r].memory.memory_type = memories[rows[r].id].memory_type
                   /\ rows[r].memory.importance_score
                         = memories[rows[r].id].importance_score
             /\ \A r, q \in 1..Len(rows) :
                   r < q => /\ rows[r].id # rows[q].id
                            /\ rows[r].memory.timestamp >= rows[q].memory.timestamp
             /\ call.arg >= Cardinality(own) =>
                   {rows[r].id : r \in 1..Len(rows)} = own
             /\ \A i \in own \ {rows[r].id : r \in 1..Len(rows)} :
                   \A r \in 1..Len(rows) :
                      memories[i].timestamp <= rows[r].memory.timestamp

\* C29: an agent with two memories added at different times and a limit of
\* one: the newer one was returned.
C29_Witness ==
    /\ call.op = "get_recent_memories"
    /\ call.arg = 1
    /\ Len(call.result) = 1
    /\ memories_count[call.agent] = 2
    /\ \E i \in 1..Len(memories) :
          /\ memories[i].agent_id = call.agent
          /\ memories[i].timestamp < call.result[1].memory.timestamp

C31_MakeRequest ==
    call.op = "make_request" =>
        LET met == call.arg
            result == call.result
            last == met[result.attempts]
        IN /\ result.attempts = Len(met)
           /\ result.attempts >= 1
           /\ result.attempts <= max_retries + 1
           /\ \A n \in 1..(result.attempts - 1) : met[n] \in {"connection", "5xx"}
           /\ result.waits = [n \in 1..(result.attempts - 1) |-> 2 ^ (n - 1)]
           /\ result.outcome = IF last = "ok" THEN "response" ELSE "OllamaError"
           /\ last \in {"connection", "5xx"} => result.attempts = max_retries + 1

\* C31: a request that met a connection error, then a 5xx response, then a
\* 4xx response ended with OllamaError after three attempts, having slept
\* one second and two seconds.
C31_Witness ==
    /\ call.op = "make_request"
    /\ call.arg = <<"connection", "5xx", "4xx">>
    /\ call.result.waits = <<1, 2>>
    /\ call.result.outcome = "OllamaError"

\* C32: the candidates of a reflection are at most 20 memories of the
\* agent, none older than 72 hours, all among the agent's 50 most recent
\* memories, and no memory among those 50 that is not a reflection and was
\* left out is more important than a candidate.
C32_ReflectionCandidates ==
    call.op = "get_reflection_memories" =>
        LET candidates == call.result
            own == {i \in 1..call.count : memories[i].agent_id = call.agent}
            recent == {i \in own : Cardinality({j \in own : j > i}) < recent_limit}
        IN /\ Cardinality(candidates) <= top_memories
           /\ candidates \subseteq recent
           /\ \A i \in candidates :
                 call.at - memories[i].timestamp <= reflection_hours
           /\ \A i \in recent \ candidates :
                 memories[i].memory_type # "reflection" =>
                    \A j \in candidates :
                       memories[i].importance_score <= memories[j].importance_score

\* C33: a trigger_reflection call persists at most 3 reflections; every
\* persisted reflection has importance 8.0 and supports itself on memories
\* that are in the structured store and belong to its agent; the reflection
\* just persisted is owned by the triggering agent and its
\* supporting_memories are the candidates of the trigger; no stored memory
\* is deleted or changed.
C33_Reflections ==
    /\ [](/\ \A t \in Tasks : hist[t].persisted <= 3
          /\ \A r \in 1..Len(reflections) :
                /\ reflections[r].importance_score = 8
                /\ \A i \in reflections[r].supporting_memories :
                      /\ i \in 1..Len(memories)
                      /\ memories[i].agent_id = reflections[r].agent_id
          /\ \A t \in Tasks :
                task[t].pc = "r_add_memory" =>
                   /\ reflections[task[t].rid].agent_id = AgentOf(t)
                   /\ reflections[task[t].rid].supporting_memories
                         = task[t].cands
                   /\ task[t].cands # {})
    /\ [][\A i \in 1..Len(memories) :
             i <= Len(memories') /\ memories'[i] = memories[i]]_vars

\* C33: a trigger whose completion had four numbered lines has persisted
\* its third reflection.
C33_Witness ==
    \E t \in Tasks :
        /\ task[t].pc = "r_add_memory"
        /\ hist[t].persisted = 3
        /\ task[t].insights = 3

\* The sum of the importance scores of the memories with the given ids.
RECURSIVE ImportanceSum(_)
ImportanceSum(ids) ==
    IF ids = {} THEN 0
    ELSE LET i == CHOOSE x \in ids : TRUE
         IN memories[i].importance_score + ImportanceSum(ids \ {i})

\* The action memories of an agent stored after its last reflection memory:
\* when no call has failed, the memories the tick loop formed for the agent
\* since its last successful reflection.
FormedSinceReflection(a) ==
    LET own == {i \in 1..Len(memories) : memories[i].agent_id = a}
        reflected == {i \in own : memories[i].memory_type = "reflection"}
    IN {i \in own : /\ memories[i].memory_type = "action"
                     /\ \A j \in reflected : j < i}

\* C34: between two pipelines, the importance accumulator of every agent is
\* the same in memory and in the store and is not negative, and (checked
\* while no external call has failed) it is the sum of the importance
\* scores of the memories formed for the agent since its last successful
\* reflection.
C34_Accumulator ==
    (\A t \in Tasks : ~InPipeline(t)) =>
        \A a \in AgentIds :
            /\ importance_accumulator[a] >= 0
            /\ store_states[a] = importance_accumulator[a]
            /\ faults = 0 =>
                  importance_accumulator[a] = ImportanceSum(FormedSinceReflection(a))

\* _build_planning_context: "current_location" is
\* agent.state.current_location or agent.home_location.
planning_context_location(a) ==
    IF state_current_location[a] # None THEN state_current_location[a]
    ELSE home_location(a)

\* generate_reflection: the prompt's "Current location" is
\* agent.state.current_location or "unknown".
reflection_prompt_location(a) ==
    IF state_current_location[a] # None THEN state_current_location[a]
    ELSE "unknown"

\* C35: between two pipelines, for every agent that is placed, the location
\* of the decision context, of the planning context, of the reflection
\* prompt and the current_location of the agent's row of agent_states all
\* equal the place of the agent's AgentLocation.
C35_Locations ==
    (\A t \in Tasks : ~InPipeline(t)) =>
        \A a \in AgentIds :
            agent_locations[a].place_id # None =>
                /\ current_location(a) = agent_locations[a].place_id
                /\ planning_context_location(a) = agent_locations[a].place_id
                /\ reflection_prompt_location(a) = agent_locations[a].place_id
                /\ store_current_location[a] = agent_locations[a].place_id

\* Place.capacity: at least 1, 10 when the configuration names none.  The
\* library of the world is configured with room for one agent.
min_capacity == 1
default_capacity == 10
capacity(p) == IF p = "library" THEN min_capacity ELSE default_capacity

\* C37: after a call of place_agent or of a move, no place holds more agents
\* than its capacity.
C37_Capacity ==
    call.op \in {"place_agent", "execute_action"} =>
        \A p \in Places :
            Cardinality(get_agents_at_location(p)) <= capacity(p)

\* The task is between two ticks: the caller of step_simulation in the command
\* loop, the background loop not yet run or asleep.
BetweenTicks(t) == task[t].pc \in {"idle", "created", "sleep"}

\* C38: the background loop exists exactly while the simulation is running
\* (one loop at most, none after pause_simulation); start_simulation while
\* running does not create the loop again, and while the simulation is not
\* running the background task does nothing and only step_simulation
\* advances the tick; every advance_tick raises the counter by exactly 1,
\* the counter changes in no other step, and no step lowers it, also after
\* a tick whose callback raised.
C38_TimeManager ==
    /\ [](is_running <=> task["bg"].pc # "none")
    /\ [][is_running /\ is_running' /\ task["bg"].pc # "created"
             => task'["bg"].pc # "created"]_vars
    /\ [][~is_running /\ ~is_running'
             => /\ task'["bg"] = task["bg"]
                /\ current_tick' # current_tick => task'["fg"].pc = "decide"]_vars
    /\ [][\A t \in Tasks :
             BetweenTicks(t) /\ task'[t].pc = "decide"
                 => current_tick' = current_tick + 1]_vars
    /\ [][current_tick' # current_tick
             => /\ current_tick' = current_tick + 1
                /\ \E t \in Tasks : /\ BetweenTicks(t)
                                    /\ task'[t].pc = "decide"
                                    /\ task'[t].tick = current_tick']_vars

\* C38: the background loop sleeps after its second tick, whose callback
\* raised, and the counter stands at two.
C38_Witness ==
    /\ is_running
    /\ task["bg"].pc = "sleep"
    /\ "_on_tick" \in hist["bg"].raised
    /\ current_tick = 2

\* C39: after pause_simulation, the tick it cancelled has left no pipeline
\* half-done: an executed action has its memory stored and its importance
\* accumulated, and the persisted reflections of a trigger have the
\* accumulator reset.
C39_PauseAtomic ==
    (~is_running /\ task["bg"].pc = "none") =>
        /\ Has("bg", "execute") => Has("bg", "memory") /\ Has("bg", "accumulate")
        /\ hist["bg"].persisted > 0 => Has("bg", "reset")

\* C40: when the pipeline of an agent begins with the accumulator at the
\* threshold and no call fails any more, the pipeline reaches its planning
\* check with a reflection persisted and the accumulator reset to 0, in
\* memory and in the store; should_reflect stays true until a reset that
\* follows a persisted reflection; and every pipeline that has formed a memory
\* and left the accumulator at the threshold has attempted trigger_reflection.
C40_ReflectionHappens ==
    /\ \A a \in AgentIds :
          (/\ task["fg"].pc = "decide"
           /\ AgentOf("fg") = a
           /\ should_reflect(a)
           /\ ~CanFail)
          ~> (/\ task["fg"].pc = "plan_check"
              /\ AgentOf("fg") = a
              /\ hist["fg"].persisted >= 1
              /\ importance_accumulator[a] = 0
              /\ store_states[a] = 0)
    /\ [][\A a \in AgentIds :
             should_reflect(a) /\ importance_accumulator'[a] < reflection_threshold
                 => /\ importance_accumulator'[a] = 0
                    /\ hist["fg"].persisted >= 1]_vars
    /\ [](task["fg"].pc = "plan_check" /\ Has("fg", "accumulate")
             /\ hist["fg"].acc_after >= reflection_threshold
             => Has("fg", "trigger"))

\* C40: the second tick of an agent whose first trigger failed has persisted
\* a reflection and reset the accumulator.
C40_Witness ==
    /\ task["fg"].pc = "plan_check"
    /\ task["fg"].tick = 2
    /\ hist["fg"].acc_before >= reflection_threshold
    /\ hist["fg"].persisted >= 1
    /\ importance_accumulator[AgentOf("fg")] = 0
    /\ faults = 1

\* C36: between two pipelines, the reflections_count of every agent is the
\* number of the reflections persisted for the agent.
C36_ReflectionsCount ==
    (\A t \in Tasks : ~InPipeline(t)) =>
        \A a \in AgentIds :
            reflections_count[a] =
                Cardinality({i \in 1..Len(reflections) : reflections[i].agent_id = a})

====
